---- MODULE Spec2Model ----
(***************************************************************************)
(* Grid animation generators: the falling-piece simulator                  *)
(* (generate-tetris.py), the ball/paddle simulator (generate-pong.py) and  *)
(* the text reveal/pulse generator (generate-welcome.py).                  *)
(*                                                                         *)
(* Each generator is a separate script; a behaviour of this module is one  *)
(* run of one of them (variable gen).  Random draws of the scripts are the *)
(* existentially quantified inputs of the actions.  Python's 0-based rows  *)
(* and columns are kept; a Python list is a TLA+ sequence, so list element *)
(* i is sequence element i + 1.                                            *)
(***************************************************************************)
EXTENDS Integers, Sequences, FiniteSets, TLC

VARIABLES
    gen,               \* which script runs: "tetris", "pong" or "welcome"
    \* ---- TetrisGame (generate-tetris.py) ----
    game_rows,         \* the module global GAME_ROWS of this run
    num_pieces,        \* argument of simulate_game
    board,             \* self.board: list of rows, each a list of cells
    current_piece,     \* self.current_piece: list of (dr, dc); <<>> is None
    current_type,      \* self.current_type
    current_rotation,  \* self.current_rotation
    current_row,       \* self.current_row
    current_col,       \* self.current_col
    score,             \* self.score
    lines_cleared,     \* self.lines_cleared
    frame,             \* the frame appended last to self.frames
    pc,                \* position in simulate_game
    pieces_done,       \* iterations of the for loop completed
    \* history of the current piece (not program state)
    falls,             \* successful downward moves of the current piece
    acted,             \* a left/right/rotate action was drawn for it
    spawn_failed,      \* its first spawn_piece call returned False
    locked_board,      \* the board between lock_piece and clear_lines
    last_cleared,      \* return value of the last clear_lines call
    \* ---- PongGame (generate-pong.py) ----
    ball_x, ball_y, ball_vx, ball_vy,
    left_paddle_y, right_paddle_y,
    left_score, right_score,
    will_miss_left, will_miss_right,
    miss_direction_left, miss_direction_right,
    pong_frame,        \* the frame simulate_pong_game appended last
    first_leg,         \* history: no bounce, hit or score since __init__
    \* ---- generate_animation_frames (generate-welcome.py) ----
    base_grid,         \* argument base_grid
    revealed,          \* the set revealed
    frame_idx,         \* frame_idx of the loop in progress
    wpc,               \* position in generate_animation_frames
    wframe,            \* the frame appended last to frames
    \* ---- the renderers (create_arcade_svg, create_contribution_svg) ----
    frames,            \* argument frames
    scores,            \* argument scores (generate-pong.py only)
    frame_duration,    \* frame_duration (1 / fps in generate-pong.py), seconds
    rpc,               \* position in the renderer
    cells_done,        \* iterations of the cell loops completed
    rect,              \* the rectangle the last iteration emitted
    \* ---- the list objects of a simulation ----
    heap,              \* the row lists created so far, by identity
    board_ids,         \* self.board: the identities of its row lists
    frame_refs,        \* self.frames / frames: each frame with the identities
                       \* of the row lists it holds
    draw_script,       \* the draws of random.choice and random.random
    frames_per_update, \* argument frames_per_update
    num_game_updates   \* argument num_game_updates

tvars == <<game_rows, num_pieces, board, current_piece, current_type,
           current_rotation, current_row, current_col, score, lines_cleared,
           frame, pc, pieces_done, falls, acted, spawn_failed,
           locked_board, last_cleared>>

pvars == <<ball_x, ball_y, ball_vx, ball_vy, left_paddle_y, right_paddle_y,
           left_score, right_score, will_miss_left, will_miss_right,
           miss_direction_left, miss_direction_right, pong_frame, first_leg>>

wvars == <<base_grid, revealed, frame_idx, wpc, wframe>>

rvars == <<frames, scores, frame_duration, rpc, cells_done, rect>>

hvars == <<heap, board_ids, frame_refs, draw_script, frames_per_update,
           num_game_updates>>

vars == <<gen, tvars, pvars, wvars, rvars, hvars>>

----------------------------------------------------------------------------
(* generate-tetris.py: constants *)

GAME_COLS == 10
GAME_ROWS == 16

None == "None"
NoPiece == <<>>

PieceTypes == {"I", "O", "T", "S", "Z", "J", "L"}

PIECES ==
    [t \in PieceTypes |->
        CASE t = "I" -> << << <<0,0>>, <<0,1>>, <<0,2>>, <<0,3>> >>,
                           << <<0,0>>, <<1,0>>, <<2,0>>, <<3,0>> >> >>
          [] t = "O" -> << << <<0,0>>, <<0,1>>, <<1,0>>, <<1,1>> >> >>
          [] t = "T" -> << << <<0,1>>, <<1,0>>, <<1,1>>, <<1,2>> >>,
                           << <<0,0>>, <<1,0>>, <<1,1>>, <<2,0>> >>,
                           << <<0,0>>, <<0,1>>, <<0,2>>, <<1,1>> >>,
                           << <<0,1>>, <<1,0>>, <<1,1>>, <<2,1>> >> >>
          [] t = "S" -> << << <<0,1>>, <<0,2>>, <<1,0>>, <<1,1>> >>,
                           << <<0,0>>, <<1,0>>, <<1,1>>, <<2,1>> >> >>
          [] t = "Z" -> << << <<0,0>>, <<0,1>>, <<1,1>>, <<1,2>> >>,
                           << <<0,1>>, <<1,0>>, <<1,1>>, <<2,0>> >> >>
          [] t = "J" -> << << <<0,0>>, <<1,0>>, <<1,1>>, <<1,2>> >>,
                           << <<0,0>>, <<0,1>>, <<1,0>>, <<2,0>> >>,
                           << <<0,0>>, <<0,1>>, <<0,2>>, <<1,2>> >>,
                           << <<0,1>>, <<1,1>>, <<2,0>>, <<2,1>> >> >>
          [] t = "L" -> << << <<0,2>>, <<1,0>>, <<1,1>>, <<1,2>> >>,
                           << <<0,0>>, <<1,0>>, <<2,0>>, <<2,1>> >>,
                           << <<0,0>>, <<0,1>>, <<0,2>>, <<1,0>> >>,
                           << <<0,0>>, <<0,1>>, <<1,1>>, <<2,1>> >> >>]

(* generate-pong.py: constants *)

GRID_COLS == 53
GRID_ROWS == 7
PADDLE_HEIGHT == 3
LEFT_PADDLE_COL == 1
RIGHT_PADDLE_COL == 51
CENTER_COL == 26

CONTRIB_COLORS == <<"#0e4429", "#006d32", "#26a641", "#39d353">>
EMPTY_COLOR == "#161b22"

(* Bounds of the model *)
MaxPieces == 1
ScenarioRows == 20
MaxScore == 2
MaxCells == 64
MaxUpdates == 3
MaxSimUpdates == 28
MaxRepeat == 2

----------------------------------------------------------------------------
(* generate-tetris.py: TetrisGame *)

EmptyRow == [c \in 1..GAME_COLS |-> None]

\* [[None for _ in range(GAME_COLS)] for _ in range(GAME_ROWS)]
EmptyBoard(rows) == [r \in 1..rows |-> EmptyRow]

\* self.board[r][c]
Cell(b, r, c) == b[r + 1][c + 1]

\* is_valid_position without the occupancy test
is_valid_position_bounds_only(b, rows, row, col, piece) ==
    \A i \in 1..Len(piece) :
        LET r == row + piece[i][1]
            c == col + piece[i][2]
        IN  ~(r < 0 \/ r >= rows \/ c < 0 \/ c >= GAME_COLS)

\* is_valid_position(row, col, piece)
is_valid_position(b, rows, row, col, piece) ==
    \A i \in 1..Len(piece) :
        LET r == row + piece[i][1]
            c == col + piece[i][2]
        IN  /\ ~(r < 0 \/ r >= rows \/ c < 0 \/ c >= GAME_COLS)
            /\ ~(r >= 0 /\ Cell(b, r, c) # None)

\* spawn_piece with random.choice drawing t: the fields it assigns and its
\* return value
spawn_piece(b, rows, t) ==
    LET piece == PIECES[t][0 + 1]
        col == (GAME_COLS \div 2) - 2
    IN  [type |-> t, rotation |-> 0, piece |-> piece, row |-> 0, col |-> col,
         ok |-> is_valid_position(b, rows, 0, col, piece)]

\* the offsets with the right-hand one of each pair first
KickOffsetsRightFirst == <<0, 1, -1, 2, -2>>

KickOffsets == <<0, -1, 1, -2, 2>>

\* try_rotate: the fields it assigns and its return value
try_rotate(b, rows, type, rotation, piece, row, col) ==
    LET rotations == PIECES[type]
        new_rotation == (rotation + 1) % Len(rotations)
        new_piece == rotations[new_rotation + 1]
        valid == {k \in 1..Len(KickOffsets) :
                    is_valid_position(b, rows, row, col + KickOffsets[k], new_piece)}
        same == [rotation |-> rotation, piece |-> piece, col |-> col, ok |-> FALSE]
    IN  IF type = "O" THEN same
        ELSE IF valid = {} THEN same
        ELSE LET k == CHOOSE k \in valid : \A j \in valid : k <= j
             IN  [rotation |-> new_rotation, piece |-> new_piece,
                  col |-> col + KickOffsets[k], ok |-> TRUE]

\* try_move reporting success when the candidate position is rejected
try_move_always_ok(b, rows, piece, row, col, d_row, d_col) ==
    LET new_row == row + d_row
        new_col == col + d_col
    IN  IF is_valid_position(b, rows, new_row, new_col, piece)
        THEN [row |-> new_row, col |-> new_col, ok |-> TRUE]
        ELSE [row |-> row, col |-> col, ok |-> TRUE]

\* try_move assigning the candidate position before testing it
try_move_assign_first(b, rows, piece, row, col, d_row, d_col) ==
    LET new_row == row + d_row
        new_col == col + d_col
    IN  [row |-> new_row, col |-> new_col,
         ok |-> is_valid_position(b, rows, new_row, new_col, piece)]

\* try_move testing the current position instead of the candidate
try_move_stale(b, rows, piece, row, col, d_row, d_col) ==
    LET new_row == row + d_row
        new_col == col + d_col
    IN  IF is_valid_position(b, rows, row, col, piece)
        THEN [row |-> new_row, col |-> new_col, ok |-> TRUE]
        ELSE [row |-> row, col |-> col, ok |-> FALSE]

\* try_move(d_row, d_col): the fields it assigns and its return value
try_move(b, rows, piece, row, col, d_row, d_col) ==
    LET new_row == row + d_row
        new_col == col + d_col
    IN  IF is_valid_position(b, rows, new_row, new_col, piece)
        THEN [row |-> new_row, col |-> new_col, ok |-> TRUE]
        ELSE [row |-> row, col |-> col, ok |-> FALSE]

RECURSIVE lock_cells(_, _, _, _, _, _, _)
lock_cells(b, rows, piece, type, row, col, i) ==
    IF i > Len(piece) THEN b
    ELSE LET r == row + piece[i][1]
             c == col + piece[i][2]
             b1 == IF 0 <= r /\ r < rows
                   THEN [b EXCEPT ![r + 1][c + 1] = type]
                   ELSE b
         IN  lock_cells(b1, rows, piece, type, row, col, i + 1)

\* lock_piece writing a marker instead of the piece type
lock_piece_marker(b, rows, piece, type, row, col) ==
    lock_cells(b, rows, piece, "X", row, col, 1)

\* lock_piece leaving out the first cell of the piece
lock_piece_skip_first(b, rows, piece, type, row, col) ==
    lock_cells(b, rows, piece, type, row, col, 2)

\* lock_piece
lock_piece(b, rows, piece, type, row, col) ==
    lock_cells(b, rows, piece, type, row, col, 1)

\* all(self.board[r][c] is not None for c in range(GAME_COLS))
RowFull(b, r) == \A c \in 0..(GAME_COLS - 1) : Cell(b, r, c) # None

RECURSIVE lines_to_clear_from(_, _, _)
lines_to_clear_from(b, rows, r) ==
    IF r >= rows THEN <<>>
    ELSE (IF RowFull(b, r) THEN <<r>> ELSE <<>>) \o lines_to_clear_from(b, rows, r + 1)

\* the first loop of clear_lines
lines_to_clear(b, rows) == lines_to_clear_from(b, rows, 0)

\* del self.board[r]
DelRow(b, r) == SubSeq(b, 1, r) \o SubSeq(b, r + 2, Len(b))

\* the new row appended below the board instead
InsertBottom(b) == b \o <<EmptyRow>>

\* self.board.insert(0, [None for _ in range(GAME_COLS)])
InsertTop(b) == <<EmptyRow>> \o b

\* the second loop of clear_lines walking lines_to_clear from its end
RECURSIVE clear_rows_reversed(_, _, _)
clear_rows_reversed(b, lines, i) ==
    IF i > Len(lines) THEN b
    ELSE clear_rows_reversed(InsertTop(DelRow(b, lines[Len(lines) + 1 - i])),
                             lines, i + 1)

\* the second loop of clear_lines, lines 120-122
RECURSIVE clear_rows(_, _, _)
clear_rows(b, lines, i) ==
    IF i > Len(lines) THEN b
    ELSE clear_rows(InsertTop(DelRow(b, lines[i])), lines, i + 1)

\* clear_lines adding 100 for a clear of any number of rows
clear_lines_flat_score(b, rows, sc) ==
    LET lines == lines_to_clear(b, rows)
    IN  [board |-> clear_rows(b, lines, 1),
         score |-> IF Len(lines) > 0 THEN sc + 100 ELSE sc,
         cleared |-> Len(lines)]

\* clear_lines: the board it leaves, the score it leaves and its return value
clear_lines(b, rows, sc) ==
    LET lines == lines_to_clear(b, rows)
    IN  [board |-> clear_rows(b, lines, 1),
         score |-> IF Len(lines) > 0 THEN sc + Len(lines) * 100 ELSE sc,
         cleared |-> Len(lines)]

\* the dict capture_frame appends
capture_frame(b, type, piece, row, col, sc) ==
    [board |-> b, piece_type |-> type, piece |-> piece,
     piece_row |-> row, piece_col |-> col, score |-> sc]

NoFrame == [board |-> <<>>, piece_type |-> None, piece |-> NoPiece,
            piece_row |-> 0, piece_col |-> 0, score |-> 0]

----------------------------------------------------------------------------
(* generate-tetris.py: simulate_game, as steps on the record g of the      *)
(* TetrisGame fields                                                       *)

\* TetrisGame.__init__
NewGame(rows) ==
    [board |-> EmptyBoard(rows), piece |-> NoPiece, type |-> None,
     rotation |-> 0, row |-> 0, col |-> 0, lines_cleared |-> 0, score |-> 0]

\* lines 141-144 without the wipe of the board
do_spawn_no_wipe(g, rows, t1, t2) ==
    LET s1 == spawn_piece(g.board, rows, t1)
        s2 == spawn_piece(g.board, rows, t2)
    IN  IF s1.ok
        THEN [g EXCEPT !.type = s1.type, !.rotation = s1.rotation,
                       !.piece = s1.piece, !.row = s1.row, !.col = s1.col]
        ELSE [g EXCEPT !.score = 0,
                       !.type = s2.type, !.rotation = s2.rotation,
                       !.piece = s2.piece, !.row = s2.row, !.col = s2.col]

\* simulate_game, lines 141-144: spawn, and on failure wipe and spawn again;
\* t1 and t2 are the draws of random.choice in the two spawn_piece calls
do_spawn(g, rows, t1, t2) ==
    LET s1 == spawn_piece(g.board, rows, t1)
        s2 == spawn_piece(EmptyBoard(rows), rows, t2)
    IN  IF s1.ok
        THEN [g EXCEPT !.type = s1.type, !.rotation = s1.rotation,
                       !.piece = s1.piece, !.row = s1.row, !.col = s1.col]
        ELSE [g EXCEPT !.board = EmptyBoard(rows), !.score = 0,
                       !.type = s2.type, !.rotation = s2.rotation,
                       !.piece = s2.piece, !.row = s2.row, !.col = s2.col]

Actions == {"left", "right", "rotate", "none"}

\* lines 147-153 followed by the downward move of line 155, as if the frame
\* of the tick were captured after it
do_action_with_fall(g, rows, action) ==
    LET m == IF action = "left"
             THEN try_move(g.board, rows, g.piece, g.row, g.col, 0, -1)
             ELSE IF action = "right"
             THEN try_move(g.board, rows, g.piece, g.row, g.col, 0, 1)
             ELSE [row |-> g.row, col |-> g.col, ok |-> FALSE]
        t == IF action = "rotate"
             THEN try_rotate(g.board, rows, g.type, g.rotation, g.piece, g.row, g.col)
             ELSE [rotation |-> g.rotation, piece |-> g.piece, col |-> m.col, ok |-> FALSE]
        d == try_move(g.board, rows, t.piece, m.row, t.col, 1, 0)
    IN  [g EXCEPT !.rotation = t.rotation, !.piece = t.piece,
                  !.row = d.row, !.col = d.col]

\* simulate_game, lines 147-153: action is the branch random.random() selects
do_action(g, rows, action) ==
    IF action = "left" THEN
        LET m == try_move(g.board, rows, g.piece, g.row, g.col, 0, -1)
        IN  [g EXCEPT !.row = m.row, !.col = m.col]
    ELSE IF action = "right" THEN
        LET m == try_move(g.board, rows, g.piece, g.row, g.col, 0, 1)
        IN  [g EXCEPT !.row = m.row, !.col = m.col]
    ELSE IF action = "rotate" THEN
        LET t == try_rotate(g.board, rows, g.type, g.rotation, g.piece, g.row, g.col)
        IN  [g EXCEPT !.rotation = t.rotation, !.piece = t.piece, !.col = t.col]
    ELSE g

\* simulate_game, lines 155-159: the downward move, and on its failure lock,
\* clear and drop the piece; g is the game it leaves, locked whether it locked,
\* locked_board the board between lock_piece and clear_lines
do_fall(g, rows) ==
    LET m == try_move(g.board, rows, g.piece, g.row, g.col, 1, 0)
        lb == lock_piece(g.board, rows, g.piece, g.type, g.row, g.col)
        cl == clear_lines(lb, rows, g.score)
    IN  IF m.ok
        THEN [g |-> [g EXCEPT !.row = m.row, !.col = m.col],
              locked |-> FALSE, locked_board |-> g.board, cleared |-> 0]
        ELSE [g |-> [g EXCEPT !.board = cl.board, !.score = cl.score,
                              !.lines_cleared = g.lines_cleared + cl.cleared,
                              !.piece = NoPiece],
              locked |-> TRUE, locked_board |-> lb, cleared |-> cl.cleared]

\* the while loop of simulate_game for one piece whose action draws are
\* draws, followed by draws that select no action
RECURSIVE run_piece(_, _, _, _)
run_piece(g, rows, draws, i) ==
    LET a == IF i <= Len(draws) THEN draws[i] ELSE "none"
        f == do_fall(do_action(g, rows, a), rows)
    IN  IF f.locked THEN f.g ELSE run_piece(f.g, rows, draws, i + 1)

\* the for loop of simulate_game over a script of pieces, each a piece type
\* with its action draws
RECURSIVE play(_, _, _, _)
play(g, rows, script, k) ==
    IF k > Len(script) THEN g
    ELSE play(run_piece(do_spawn(g, rows, script[k][1], script[k][1]),
                        rows, script[k][2], 1),
              rows, script, k + 1)

(* Games in progress: each is the game simulate_game holds at the top of  *)
(* its for loop after the pieces of a script.                             *)

\* four I pieces turned upright on their first tick: column 3 is full
TowerScript ==
    << <<"I", <<"rotate">> >>, <<"I", <<"rotate">> >>,
       <<"I", <<"rotate">> >>, <<"I", <<"rotate">> >> >>

\* the two bottom rows filled in columns 0..7
PairScript ==
    << <<"I", <<"left", "left", "left">> >>, <<"I", <<"right">> >>,
       <<"I", <<"left", "left", "left">> >>, <<"I", <<"right">> >> >>

\* rows 15 and 13 filled in columns 0..8, row 14 in columns 1..8, column 9
\* empty; the script is played in two halves
SplitScriptA ==
    << <<"I", <<"left", "left", "left">> >>,
       <<"I", <<"right">> >>,
       <<"I", <<"left", "left">> >>,
       <<"J", <<"right", "right">> >> >>

SplitScriptB ==
    << <<"I", <<"left", "left", "left">> >>,
       <<"O", <<"right", "right", "right">> >>,
       <<"I", <<"rotate", "right">> >>,
       <<"I", <<"rotate", "right", "right", "right", "right", "right">> >> >>

FreshGame == NewGame(GAME_ROWS)
TowerGame == play(FreshGame, GAME_ROWS, TowerScript, 1)
PairGame == play(FreshGame, GAME_ROWS, PairScript, 1)
SplitGameA == play(FreshGame, GAME_ROWS, SplitScriptA, 1)
SplitGame == play(SplitGameA, GAME_ROWS, SplitScriptB, 1)

StartGames == {FreshGame, TowerGame, PairGame, SplitGame}

\* an O piece dropped into columns 8 and 9
ClearScript == << <<"O", <<"right", "right", "right", "right", "right">> >> >>

\* PairGame after the O piece: both rows cleared, the board empty again
ClearedGame == play(PairGame, GAME_ROWS, ClearScript, 1)

\* the tower of four upright I pieces built after two lines were cleared
ClearedTowerGame == play(ClearedGame, GAME_ROWS, TowerScript, 1)

RecoveryGames == {ClearedTowerGame, PairGame}

----------------------------------------------------------------------------
(* The Tetris run *)

Game ==
    [board |-> board, piece |-> current_piece, type |-> current_type,
     rotation |-> current_rotation, row |-> current_row, col |-> current_col,
     lines_cleared |-> lines_cleared, score |-> score]

SetGame(g) ==
    /\ board' = g.board
    /\ current_piece' = g.piece
    /\ current_type' = g.type
    /\ current_rotation' = g.rotation
    /\ current_row' = g.row
    /\ current_col' = g.col
    /\ lines_cleared' = g.lines_cleared
    /\ score' = g.score

FrameOf(g) == capture_frame(g.board, g.type, g.piece, g.row, g.col, g.score)

\* the TetrisGame variables while another script runs
TetrisIdle ==
    /\ game_rows = GAME_ROWS
    /\ num_pieces = 0
    /\ board = <<>>
    /\ current_piece = NoPiece
    /\ current_type = None
    /\ current_rotation = 0
    /\ current_row = 0
    /\ current_col = 0
    /\ score = 0
    /\ lines_cleared = 0
    /\ frame = NoFrame
    /\ pc = "idle"
    /\ pieces_done = 0
    /\ falls = 0
    /\ acted = FALSE
    /\ spawn_failed = FALSE
    /\ locked_board = <<>>
    /\ last_cleared = 0

\* the PongGame variables while another script runs
PongIdle ==
    /\ ball_x = 0
    /\ ball_y = 0
    /\ ball_vx = 0
    /\ ball_vy = 0
    /\ left_paddle_y = 0
    /\ right_paddle_y = 0
    /\ left_score = 0
    /\ right_score = 0
    /\ will_miss_left = FALSE
    /\ will_miss_right = FALSE
    /\ miss_direction_left = 0
    /\ miss_direction_right = 0
    /\ pong_frame = <<>>
    /\ first_leg = FALSE

\* the variables of generate_animation_frames while another script runs
WelcomeIdle ==
    /\ base_grid = <<>>
    /\ revealed = {}
    /\ frame_idx = 0
    /\ wpc = "idle"
    /\ wframe = <<>>

\* no rectangle emitted yet
NoRect == [row |-> 0, col |-> 0, animated |-> FALSE, fill |-> "", values |-> <<>>,
           dur |-> [num |-> 0, den |-> 1]]

\* the renderer's variables while the frames are being generated
RenderIdle ==
    /\ frames = <<>>
    /\ scores = <<>>
    /\ frame_duration = [num |-> 0, den |-> 1]
    /\ rpc = "idle"
    /\ cells_done = 0
    /\ rect = NoRect

\* the list objects while they are not followed
HeapIdle ==
    /\ heap = <<>>
    /\ board_ids = <<>>
    /\ frame_refs = <<>>
    /\ draw_script = <<>>
    /\ frames_per_update = 0
    /\ num_game_updates = 0

TetrisInitWith(rows, games) ==
    /\ gen = "tetris"
    /\ RenderIdle
    /\ HeapIdle
    /\ game_rows = rows
    /\ num_pieces \in 0..MaxPieces
    /\ \E g \in games :
        /\ board = g.board
        /\ current_piece = g.piece
        /\ current_type = g.type
        /\ current_rotation = g.rotation
        /\ current_row = g.row
        /\ current_col = g.col
        /\ lines_cleared = g.lines_cleared
        /\ score = g.score
        /\ locked_board = g.board
    /\ frame = NoFrame
    /\ pc = "spawn"
    /\ pieces_done = 0
    /\ falls = 0
    /\ acted = FALSE
    /\ spawn_failed = FALSE
    /\ last_cleared = 0

TetrisInit == TetrisInitWith(GAME_ROWS, StartGames) /\ PongIdle /\ WelcomeIdle

\* for _ in range(num_pieces): spawn (lines 141-144) and capture_frame (145)
SpawnStep ==
    /\ gen = "tetris"
    /\ pc = "spawn"
    /\ pieces_done < num_pieces
    /\ \E t1 \in PieceTypes, t2 \in PieceTypes :
        LET g == do_spawn(Game, game_rows, t1, t2)
        IN  /\ SetGame(g)
            /\ frame' = FrameOf(g)
            /\ spawn_failed' = ~spawn_piece(board, game_rows, t1).ok
    /\ pc' = "tick"
    /\ falls' = 0
    /\ acted' = FALSE
    /\ UNCHANGED <<gen, game_rows, num_pieces, pieces_done, locked_board, last_cleared>>
    /\ UNCHANGED <<pvars, wvars, rvars, hvars>>

\* return self.frames
ReturnStep ==
    /\ gen = "tetris"
    /\ pc = "spawn"
    /\ pieces_done >= num_pieces
    /\ pc' = "done"
    /\ UNCHANGED <<gen, game_rows, num_pieces, board, current_piece, current_type,
                   current_rotation, current_row, current_col, score,
                   lines_cleared, frame, pieces_done, falls, acted,
                   spawn_failed, locked_board, last_cleared>>
    /\ UNCHANGED <<pvars, wvars, rvars, hvars>>

\* lines 147-154 with the draw selecting action a
ActionStep(a) ==
    /\ gen = "tetris"
    /\ pc = "tick"
    /\ LET g == do_action(Game, game_rows, a)
       IN  /\ SetGame(g)
           /\ frame' = FrameOf(g)
    /\ acted' = (acted \/ a # "none")
    /\ pc' = "fall"
    /\ UNCHANGED <<gen, game_rows, num_pieces, pieces_done, falls, spawn_failed,
                   locked_board, last_cleared>>
    /\ UNCHANGED <<pvars, wvars, rvars, hvars>>

MoveLeftStep == ActionStep("left")
MoveRightStep == ActionStep("right")
RotateStep == ActionStep("rotate")
NoActionStep == ActionStep("none")

\* line 155, the downward move succeeds
FallStep ==
    /\ gen = "tetris"
    /\ pc = "fall"
    /\ LET f == do_fall(Game, game_rows)
       IN  /\ ~f.locked
           /\ SetGame(f.g)
    /\ falls' = falls + 1
    /\ pc' = "tick"
    /\ UNCHANGED <<gen, game_rows, num_pieces, frame, pieces_done, acted,
                   spawn_failed, locked_board, last_cleared>>
    /\ UNCHANGED <<pvars, wvars, rvars, hvars>>

\* lines 155-161, the downward move fails
LockStep ==
    /\ gen = "tetris"
    /\ pc = "fall"
    /\ LET f == do_fall(Game, game_rows)
       IN  /\ f.locked
           /\ SetGame(f.g)
           /\ frame' = FrameOf(f.g)
           /\ locked_board' = f.locked_board
           /\ last_cleared' = f.cleared
    /\ pieces_done' = pieces_done + 1
    /\ pc' = "spawn"
    /\ UNCHANGED <<gen, game_rows, num_pieces, falls, acted, spawn_failed>>
    /\ UNCHANGED <<pvars, wvars, rvars, hvars>>

TetrisNext ==
    \/ SpawnStep
    \/ MoveLeftStep
    \/ MoveRightStep
    \/ RotateStep
    \/ NoActionStep
    \/ FallStep
    \/ LockStep
    \/ ReturnStep

SpecTetris == TetrisInit /\ [][TetrisNext]_vars

\* simulate_game runs in one thread that always takes its next step
FreshInit ==
    /\ TetrisInitWith(GAME_ROWS, {NewGame(GAME_ROWS)})
    /\ PongIdle
    /\ WelcomeIdle

LiveTetris == FreshInit /\ [][TetrisNext]_vars /\ WF_vars(TetrisNext)

\* simulate_game(num_pieces=1) from each of the start games
OnePieceInit == TetrisInit /\ num_pieces = 1

SpecOnePiece == OnePieceInit /\ [][TetrisNext]_vars

----------------------------------------------------------------------------
(* generate-pong.py: PongGame, as operators on the record p of its fields  *)

Signs == {-1, 1}

Max(a, b) == IF a > b THEN a ELSE b
Min(a, b) == IF a < b THEN a ELSE b

\* _clamp_paddle
\* _clamp_paddle without the upper limit
clamp_paddle_low_only(y) == Max(0, y)

clamp_paddle(y) == Max(0, Min(GRID_ROWS - PADDLE_HEIGHT, y))

\* the draws of random.random() < q and random.choice([-1, 1]) in __init__ and
\* in reset_ball
MissDraws ==
    [will_miss_left : BOOLEAN, will_miss_right : BOOLEAN,
     miss_direction_left : Signs, miss_direction_right : Signs]

ResetDraws ==
    [ball_vx : Signs, ball_vy : Signs,
     will_miss_left : BOOLEAN, will_miss_right : BOOLEAN,
     miss_direction_left : Signs, miss_direction_right : Signs]

\* PongGame.__init__ with draws d
NewPong(d) ==
    [ball_x |-> GRID_COLS \div 2, ball_y |-> GRID_ROWS \div 2,
     ball_vx |-> 1, ball_vy |-> 1,
     left_paddle_y |-> (GRID_ROWS - PADDLE_HEIGHT) \div 2,
     right_paddle_y |-> (GRID_ROWS - PADDLE_HEIGHT) \div 2,
     left_score |-> 0, right_score |-> 0,
     will_miss_left |-> d.will_miss_left, will_miss_right |-> d.will_miss_right,
     miss_direction_left |-> d.miss_direction_left,
     miss_direction_right |-> d.miss_direction_right]

\* reset_ball leaving the paddles where they are
reset_ball_keep_paddles(p, d) ==
    [p EXCEPT !.ball_x = GRID_COLS \div 2, !.ball_y = GRID_ROWS \div 2,
              !.ball_vx = d.ball_vx, !.ball_vy = d.ball_vy,
              !.will_miss_left = d.will_miss_left,
              !.will_miss_right = d.will_miss_right,
              !.miss_direction_left = d.miss_direction_left,
              !.miss_direction_right = d.miss_direction_right]

\* reset_ball with draws d
reset_ball(p, d) ==
    [p EXCEPT !.ball_x = GRID_COLS \div 2, !.ball_y = GRID_ROWS \div 2,
              !.ball_vx = d.ball_vx, !.ball_vy = d.ball_vy,
              !.left_paddle_y = (GRID_ROWS - PADDLE_HEIGHT) \div 2,
              !.right_paddle_y = (GRID_ROWS - PADDLE_HEIGHT) \div 2,
              !.will_miss_left = d.will_miss_left,
              !.will_miss_right = d.will_miss_right,
              !.miss_direction_left = d.miss_direction_left,
              !.miss_direction_right = d.miss_direction_right]

\* update, lines 97-106: the left paddle before clamping
\* the left paddle tracking the ball on either half of the grid
move_left_paddle_any_half(p) ==
    LET target_y == p.ball_y - PADDLE_HEIGHT \div 2
    IN  IF p.will_miss_left /\ p.ball_vx < 0
           /\ p.ball_x < (GRID_COLS * 2) \div 5
        THEN p.left_paddle_y + p.miss_direction_left
        ELSE IF p.left_paddle_y < target_y THEN p.left_paddle_y + 1
        ELSE IF p.left_paddle_y > target_y THEN p.left_paddle_y - 1
        ELSE p.left_paddle_y

move_left_paddle(p) ==
    IF p.ball_x < GRID_COLS \div 2
    THEN LET target_y == p.ball_y - PADDLE_HEIGHT \div 2
         IN  IF p.will_miss_left /\ p.ball_vx < 0
                /\ p.ball_x < (GRID_COLS * 2) \div 5
             THEN p.left_paddle_y + p.miss_direction_left
             ELSE IF p.left_paddle_y < target_y THEN p.left_paddle_y + 1
             ELSE IF p.left_paddle_y > target_y THEN p.left_paddle_y - 1
             ELSE p.left_paddle_y
    ELSE p.left_paddle_y

\* the right paddle moving in the deliberate-miss branch only
move_right_paddle_no_tracking(p) ==
    IF /\ p.ball_x >= GRID_COLS \div 2
       /\ p.will_miss_right /\ p.ball_vx > 0
       /\ p.ball_x > (GRID_COLS * 3) \div 5
    THEN p.right_paddle_y + p.miss_direction_right
    ELSE p.right_paddle_y

\* update, lines 109-118: the right paddle before clamping
move_right_paddle(p) ==
    IF p.ball_x >= GRID_COLS \div 2
    THEN LET target_y == p.ball_y - PADDLE_HEIGHT \div 2
         IN  IF p.will_miss_right /\ p.ball_vx > 0
                /\ p.ball_x > (GRID_COLS * 3) \div 5
             THEN p.right_paddle_y + p.miss_direction_right
             ELSE IF p.right_paddle_y < target_y THEN p.right_paddle_y + 1
             ELSE IF p.right_paddle_y > target_y THEN p.right_paddle_y - 1
             ELSE p.right_paddle_y
    ELSE p.right_paddle_y

\* the wall check with > for >= at the bottom wall
wall_bounce_off_by_one(y, vy) ==
    LET next_y == y + vy
    IN  IF next_y < 0 THEN [next_y |-> 0, ball_vy |-> -vy]
        ELSE IF next_y > GRID_ROWS THEN [next_y |-> GRID_ROWS - 1, ball_vy |-> -vy]
        ELSE [next_y |-> next_y, ball_vy |-> vy]

\* the wall check clamping the row without inverting the velocity
wall_bounce_no_flip(y, vy) ==
    LET next_y == y + vy
    IN  IF next_y < 0 THEN [next_y |-> 0, ball_vy |-> vy]
        ELSE IF next_y >= GRID_ROWS THEN [next_y |-> GRID_ROWS - 1, ball_vy |-> vy]
        ELSE [next_y |-> next_y, ball_vy |-> vy]

\* update, lines 126-134: the next row and the vertical velocity after the
\* wall check
wall_bounce(y, vy) ==
    LET next_y == y + vy
    IN  IF next_y < 0 THEN [next_y |-> 0, ball_vy |-> -vy]
        ELSE IF next_y >= GRID_ROWS THEN [next_y |-> GRID_ROWS - 1, ball_vy |-> -vy]
        ELSE [next_y |-> next_y, ball_vy |-> vy]

\* for py in range(paddle_y, paddle_y + PADDLE_HEIGHT): if next_y == py
\* the paddle test with <= for < at the paddle's lower end
hits_paddle_one_more_row(paddle_y, next_y) ==
    paddle_y <= next_y /\ next_y <= paddle_y + PADDLE_HEIGHT

hits_paddle(paddle_y, next_y) ==
    \E py \in paddle_y..(paddle_y + PADDLE_HEIGHT - 1) : next_y = py

\* update with d the draws of reset_ball, should it be called; scored tells
\* whether it returned after scoring
update(p, d) ==
    LET lp == clamp_paddle(move_left_paddle(p))
        rp == clamp_paddle(move_right_paddle(p))
        next_x0 == p.ball_x + p.ball_vx
        w == wall_bounce(p.ball_y, p.ball_vy)
        next_y == w.next_y
        p1 == [p EXCEPT !.left_paddle_y = lp, !.right_paddle_y = rp,
                        !.ball_vy = w.ball_vy]
        \* left paddle collision, lines 137-150
        left_zone == next_x0 <= LEFT_PADDLE_COL + 1 /\ p1.ball_vx < 0
        left_hit == left_zone /\ hits_paddle(lp, next_y)
        next_x1 == IF left_hit THEN LEFT_PADDLE_COL + 2 ELSE next_x0
        vx1 == IF left_hit THEN -p1.ball_vx ELSE p1.ball_vx
        left_miss == left_zone /\ ~left_hit /\ next_x1 < 0
        \* right paddle collision, lines 153-166
        right_zone == next_x1 >= RIGHT_PADDLE_COL - 1 /\ vx1 > 0
        right_hit == right_zone /\ hits_paddle(rp, next_y)
        next_x2 == IF right_hit THEN RIGHT_PADDLE_COL - 2 ELSE next_x1
        vx2 == IF right_hit THEN -vx1 ELSE vx1
        right_miss == right_zone /\ ~right_hit /\ next_x2 >= GRID_COLS
    IN  IF left_miss
        THEN [p |-> reset_ball([p1 EXCEPT !.right_score = p1.right_score + 1], d),
              scored |-> TRUE, hit |-> FALSE]
        ELSE IF right_miss
        THEN [p |-> reset_ball([p1 EXCEPT !.ball_vx = vx1,
                                          !.left_score = p1.left_score + 1], d),
              scored |-> TRUE, hit |-> left_hit]
        ELSE [p |-> [p1 EXCEPT !.ball_vx = vx2, !.ball_x = next_x2,
                               !.ball_y = next_y],
              scored |-> FALSE, hit |-> left_hit \/ right_hit]

\* get_frame
get_frame(p) ==
    [r \in 1..GRID_ROWS |-> [c \in 1..GRID_COLS |->
        LET row == r - 1
            col == c - 1
        IN  IF /\ 0 <= p.ball_y /\ p.ball_y < GRID_ROWS
               /\ 0 <= p.ball_x /\ p.ball_x < GRID_COLS
               /\ row = p.ball_y /\ col = p.ball_x
            THEN CONTRIB_COLORS[3 + 1]
            ELSE IF /\ col = RIGHT_PADDLE_COL
                    /\ row \in p.right_paddle_y..(p.right_paddle_y + PADDLE_HEIGHT - 1)
            THEN CONTRIB_COLORS[2 + 1]
            ELSE IF /\ col = LEFT_PADDLE_COL
                    /\ row \in p.left_paddle_y..(p.left_paddle_y + PADDLE_HEIGHT - 1)
            THEN CONTRIB_COLORS[2 + 1]
            ELSE IF col = CENTER_COL /\ row % 2 = 0
            THEN CONTRIB_COLORS[0 + 1]
            ELSE EMPTY_COLOR]]

----------------------------------------------------------------------------
(* The Pong run: simulate_pong_game *)

Pong ==
    [ball_x |-> ball_x, ball_y |-> ball_y, ball_vx |-> ball_vx, ball_vy |-> ball_vy,
     left_paddle_y |-> left_paddle_y, right_paddle_y |-> right_paddle_y,
     left_score |-> left_score, right_score |-> right_score,
     will_miss_left |-> will_miss_left, will_miss_right |-> will_miss_right,
     miss_direction_left |-> miss_direction_left,
     miss_direction_right |-> miss_direction_right]

SetPong(p) ==
    /\ ball_x' = p.ball_x
    /\ ball_y' = p.ball_y
    /\ ball_vx' = p.ball_vx
    /\ ball_vy' = p.ball_vy
    /\ left_paddle_y' = p.left_paddle_y
    /\ right_paddle_y' = p.right_paddle_y
    /\ left_score' = p.left_score
    /\ right_score' = p.right_score
    /\ will_miss_left' = p.will_miss_left
    /\ will_miss_right' = p.will_miss_right
    /\ miss_direction_left' = p.miss_direction_left
    /\ miss_direction_right' = p.miss_direction_right

PongInit ==
    /\ gen = "pong"
    /\ RenderIdle
    /\ HeapIdle
    /\ TetrisIdle
    /\ WelcomeIdle
    /\ \E d \in MissDraws :
        LET p == NewPong(d)
        IN  /\ ball_x = p.ball_x
            /\ ball_y = p.ball_y
            /\ ball_vx = p.ball_vx
            /\ ball_vy = p.ball_vy
            /\ left_paddle_y = p.left_paddle_y
            /\ right_paddle_y = p.right_paddle_y
            /\ left_score = p.left_score
            /\ right_score = p.right_score
            /\ will_miss_left = p.will_miss_left
            /\ will_miss_right = p.will_miss_right
            /\ miss_direction_left = p.miss_direction_left
            /\ miss_direction_right = p.miss_direction_right
    /\ pong_frame = <<>>
    /\ first_leg = TRUE

\* whether the candidate row of this update leaves the grid
RowCrossing == ball_y + ball_vy < 0 \/ ball_y + ball_vy >= GRID_ROWS

\* one iteration of simulate_pong_game's loop in which update does not score
PongMoveStep ==
    /\ gen = "pong"
    /\ left_score + right_score < MaxScore
    /\ LET u == update(Pong, CHOOSE d \in ResetDraws : TRUE)
       IN  /\ ~u.scored
           /\ SetPong(u.p)
           /\ first_leg' = (first_leg /\ ~u.hit /\ ~RowCrossing)
    /\ pong_frame' = get_frame(Pong)
    /\ UNCHANGED <<gen, tvars, wvars, rvars, hvars>>

\* one iteration of simulate_pong_game's loop in which update scores and
\* reset_ball draws d
PongScoreStep ==
    /\ gen = "pong"
    /\ left_score + right_score < MaxScore
    /\ \E d \in ResetDraws :
        LET u == update(Pong, d)
        IN  /\ u.scored
            /\ SetPong(u.p)
    /\ first_leg' = FALSE
    /\ pong_frame' = get_frame(Pong)
    /\ UNCHANGED <<gen, tvars, wvars, rvars, hvars>>

PongNext == PongMoveStep \/ PongScoreStep

SpecPong == PongInit /\ [][PongNext]_vars

----------------------------------------------------------------------------
(* generate-welcome.py *)

WELCOME_GRID_COLS == 42
WELCOME_GRID_ROWS == 7

LETTERS ==
    [ch \in {"W", "E", "L", "C", "O", "M"} |->
        CASE ch = "W" -> << <<1,0,0,0,1>>,
                             <<1,0,0,0,1>>,
                             <<1,0,0,0,1>>,
                             <<1,0,1,0,1>>,
                             <<1,0,1,0,1>>,
                             <<1,1,0,1,1>>,
                             <<1,0,0,0,1>> >>
          [] ch = "E" -> << <<1,1,1,1,1>>,
                             <<1,0,0,0,0>>,
                             <<1,0,0,0,0>>,
                             <<1,1,1,1,0>>,
                             <<1,0,0,0,0>>,
                             <<1,0,0,0,0>>,
                             <<1,1,1,1,1>> >>
          [] ch = "L" -> << <<1,0,0,0,0>>,
                             <<1,0,0,0,0>>,
                             <<1,0,0,0,0>>,
                             <<1,0,0,0,0>>,
                             <<1,0,0,0,0>>,
                             <<1,0,0,0,0>>,
                             <<1,1,1,1,1>> >>
          [] ch = "C" -> << <<0,1,1,1,1>>,
                             <<1,0,0,0,0>>,
                             <<1,0,0,0,0>>,
                             <<1,0,0,0,0>>,
                             <<1,0,0,0,0>>,
                             <<1,0,0,0,0>>,
                             <<0,1,1,1,1>> >>
          [] ch = "O" -> << <<0,1,1,1,0>>,
                             <<1,0,0,0,1>>,
                             <<1,0,0,0,1>>,
                             <<1,0,0,0,1>>,
                             <<1,0,0,0,1>>,
                             <<1,0,0,0,1>>,
                             <<0,1,1,1,0>> >>
          [] ch = "M" -> << <<1,0,0,0,1>>,
                             <<1,1,0,1,1>>,
                             <<1,0,1,0,1>>,
                             <<1,0,1,0,1>>,
                             <<1,0,0,0,1>>,
                             <<1,0,0,0,1>>,
                             <<1,0,0,0,1>> >>]

WORD == <<"W", "E", "L", "C", "O", "M", "E">>

LETTER_WIDTH == 5
SPACING == 1
REVEAL_FRAMES == 30
PULSE_FRAMES == 30

\* build_welcome_grid: grid[row][col] is 1 where a letter of the word is set
build_welcome_grid ==
    LET total_width == Len(WORD) * LETTER_WIDTH + (Len(WORD) - 1) * SPACING
        start_col == (WELCOME_GRID_COLS - total_width) \div 2
    IN  [r \in 1..WELCOME_GRID_ROWS |-> [c \in 1..WELCOME_GRID_COLS |->
            LET col == c - 1
                k == (col - start_col) \div (LETTER_WIDTH + SPACING)
                off == (col - start_col) % (LETTER_WIDTH + SPACING)
            IN  IF col >= start_col /\ k < Len(WORD) /\ off < LETTER_WIDTH
                THEN LETTERS[WORD[k + 1]][r][off + 1]
                ELSE 0]]

\* a test bitmap with k cells set, the first k of the grid in row order
PrefixGrid(k) ==
    [r \in 1..WELCOME_GRID_ROWS |-> [c \in 1..WELCOME_GRID_COLS |->
        IF (r - 1) * WELCOME_GRID_COLS + (c - 1) < k THEN 1 ELSE 0]]

\* every (row, col) of the grid in the order the loops of lines 113-116
\* visit them, without the sort of line 119
CellsByRow ==
    [i \in 1..(WELCOME_GRID_ROWS * WELCOME_GRID_COLS) |->
        <<(i - 1) \div WELCOME_GRID_COLS, (i - 1) % WELCOME_GRID_COLS>>]

\* every (row, col) of the grid ordered by (col, row)
CellsByColumn ==
    [i \in 1..(WELCOME_GRID_ROWS * WELCOME_GRID_COLS) |->
        <<(i - 1) % WELCOME_GRID_ROWS, (i - 1) \div WELCOME_GRID_ROWS>>]

IsFilled(grid, cell) == grid[cell[1] + 1][cell[2] + 1] # 0

\* generate_animation_frames, lines 112-119: the filled cells of base_grid,
\* sorted by (col, row)
filled_cells(grid) == SelectSeq(CellsByColumn, LAMBDA cell : IsFilled(grid, cell))

\* cells_per_frame without the lower limit of one cell
cells_per_frame_unlimited(n) == n \div REVEAL_FRAMES

\* cells_per_frame = max(1, len(filled_cells) // reveal_frames)
cells_per_frame(n) == Max(1, n \div REVEAL_FRAMES)

RECURSIVE reveal_more(_, _, _)
\* lines 128-131: cells_to_reveal times, add the next cell of cells while one
\* is left
reveal_more(rev, cells, todo) ==
    IF todo <= 0 THEN rev
    ELSE reveal_more(IF Cardinality(rev) < Len(cells)
                     THEN rev \cup {cells[Cardinality(rev) + 1]}
                     ELSE rev,
                     cells, todo - 1)

\* the draws of random.randint(2, 3) for the cells of one frame: all 2, all
\* 3, or alternating
LevelDraws == {"low", "high", "even", "odd"}

drawn_level(draw, row, col) ==
    CASE draw = "low" -> 2
      [] draw = "high" -> 3
      [] draw = "even" -> 2 + ((row + col) % 2)
      [] draw = "odd" -> 3 - ((row + col) % 2)

\* lines 134-144: the reveal frame
reveal_frame(rev, draw) ==
    [r \in 1..WELCOME_GRID_ROWS |-> [c \in 1..WELCOME_GRID_COLS |->
        IF <<r - 1, c - 1>> \in rev
        THEN CONTRIB_COLORS[drawn_level(draw, r - 1, c - 1) + 1]
        ELSE EMPTY_COLOR]]

\* the level of column col without the wave offset of the frame
pulse_level_no_offset(col, idx) ==
    LET wave5 == (5 * col) % 20
    IN  IF wave5 < 5 THEN 3
        ELSE IF wave5 < 10 THEN 2
        ELSE IF wave5 < 15 THEN 1
        ELSE 2

\* lines 152-167: the level of column col in pulse frame idx.  wave is
\* (col + idx / 5.0) % 4; five times it is the integer below, and the
\* thresholds 1, 2, 3 become 5, 10, 15
pulse_level(col, idx) ==
    LET wave5 == (5 * col + idx) % 20
    IN  IF wave5 < 5 THEN 3
        ELSE IF wave5 < 10 THEN 2
        ELSE IF wave5 < 15 THEN 1
        ELSE 2

\* lines 150-171: the pulse frame
pulse_frame(grid, idx) ==
    [r \in 1..WELCOME_GRID_ROWS |-> [c \in 1..WELCOME_GRID_COLS |->
        IF grid[r][c] # 0
        THEN CONTRIB_COLORS[pulse_level(c - 1, idx) + 1]
        ELSE EMPTY_COLOR]]

----------------------------------------------------------------------------
(* The Welcome run: generate_animation_frames(base_grid) *)

BaseGrids ==
    {build_welcome_grid, PrefixGrid(WELCOME_GRID_ROWS * WELCOME_GRID_COLS)}
        \cup {PrefixGrid(k) : k \in 0..MaxCells}

WelcomeInit ==
    /\ gen = "welcome"
    /\ RenderIdle
    /\ HeapIdle
    /\ TetrisIdle
    /\ PongIdle
    /\ base_grid \in BaseGrids
    /\ revealed = {}
    /\ frame_idx = 0
    /\ wpc = "reveal"
    /\ wframe = <<>>

\* one iteration of the reveal loop, lines 126-145
RevealStep ==
    /\ gen = "welcome"
    /\ wpc = "reveal"
    /\ frame_idx < REVEAL_FRAMES
    /\ LET cells == filled_cells(base_grid)
           cells_to_reveal == Min(cells_per_frame(Len(cells)),
                                  Len(cells) - Cardinality(revealed))
           rev == reveal_more(revealed, cells, cells_to_reveal)
       IN  /\ revealed' = rev
           /\ \E draw \in LevelDraws : wframe' = reveal_frame(rev, draw)
    /\ frame_idx' = frame_idx + 1
    /\ UNCHANGED <<gen, tvars, pvars, rvars, hvars, base_grid, wpc>>

\* the reveal loop ends, the pulse loop starts
StartPulseStep ==
    /\ gen = "welcome"
    /\ wpc = "reveal"
    /\ frame_idx >= REVEAL_FRAMES
    /\ wpc' = "pulse"
    /\ frame_idx' = 0
    /\ UNCHANGED <<gen, tvars, pvars, rvars, hvars, base_grid, revealed, wframe>>

\* one iteration of the pulse loop, lines 149-172
PulseStep ==
    /\ gen = "welcome"
    /\ wpc = "pulse"
    /\ frame_idx < PULSE_FRAMES
    /\ wframe' = pulse_frame(base_grid, frame_idx)
    /\ frame_idx' = frame_idx + 1
    /\ UNCHANGED <<gen, tvars, pvars, rvars, hvars, base_grid, revealed, wpc>>

\* return frames
WelcomeReturnStep ==
    /\ gen = "welcome"
    /\ wpc = "pulse"
    /\ frame_idx >= PULSE_FRAMES
    /\ wpc' = "done"
    /\ UNCHANGED <<gen, tvars, pvars, rvars, hvars, base_grid, revealed, frame_idx, wframe>>

WelcomeNext == RevealStep \/ StartPulseStep \/ PulseStep \/ WelcomeReturnStep

SpecWelcome == WelcomeInit /\ [][WelcomeNext]_vars

----------------------------------------------------------------------------
(* Any of the three scripts *)

Init == TetrisInit \/ PongInit \/ WelcomeInit

Next == TetrisNext \/ PongNext \/ WelcomeNext

Spec == Init /\ [][Next]_vars

----------------------------------------------------------------------------
(* The frame lists the simulations hand to the renderers *)

\* the while loop of simulate_game for one piece (lines 146-161) with the
\* frames it appends to fs; draws are its action draws, followed by draws
\* that select no action
\* copy.deepcopy(self.board), line 129: every row and cell written anew
deepcopy(b) == [r \in 1..Len(b) |-> [c \in 1..Len(b[r]) |-> b[r][c]]]

\* the dict capture_frame appends, with its copy of the board
CapturedFrame(g) == [FrameOf(g) EXCEPT !.board = deepcopy(g.board)]

RECURSIVE piece_frames(_, _, _, _, _)
piece_frames(g, rows, draws, i, fs) ==
    LET a == IF i <= Len(draws) THEN draws[i] ELSE "none"
        g1 == do_action(g, rows, a)
        fs1 == Append(fs, CapturedFrame(g1))
        f == do_fall(g1, rows)
    IN  IF f.locked
        THEN [g |-> f.g, frames |-> Append(fs1, CapturedFrame(f.g))]
        ELSE piece_frames(f.g, rows, draws, i + 1, fs1)

\* simulate_game(num_pieces) with num_pieces = Len(script): the list
\* self.frames it returns, fs being the frames of the pieces before piece k
RECURSIVE simulate_game(_, _, _, _, _)

\* lines 145-161 for the piece g holds after the spawn of lines 141-144
spawned_piece_frames(g, rows, draws, fs) ==
    piece_frames(g, rows, draws, 1, Append(fs, CapturedFrame(g)))

\* the iterations of the for loop after the one that left r
rest_of_game(r, rows, script, k) ==
    simulate_game(r.g, rows, script, k + 1, r.frames)

simulate_game(g, rows, script, k, fs) ==
    IF k > Len(script) THEN fs
    ELSE rest_of_game(
            spawned_piece_frames(do_spawn(g, rows, script[k][1], script[k][1]),
                                 rows, script[k][2], fs),
            rows, script, k)

\* generate_animation_frames, lines 126-145: the frames of the reveal loop
\* from iteration idx on; the level draws of iteration idx follow pattern
RECURSIVE reveal_frames_from(_, _, _, _)
reveal_frames_from(cells, rev, idx, pattern) ==
    IF idx >= REVEAL_FRAMES THEN <<>>
    ELSE LET cells_to_reveal == Min(cells_per_frame(Len(cells)),
                                    Len(cells) - Cardinality(rev))
             rev1 == reveal_more(rev, cells, cells_to_reveal)
         IN  <<reveal_frame(rev1, pattern[(idx % Len(pattern)) + 1])>>
                \o reveal_frames_from(cells, rev1, idx + 1, pattern)

\* generate_animation_frames(base_grid): the list frames it returns
generate_animation_frames(grid, pattern) ==
    reveal_frames_from(filled_cells(grid), {}, 0, pattern)
        \o [i \in 1..PULSE_FRAMES |-> pulse_frame(grid, i - 1)]

\* get_score: f"{self.left_score} - {self.right_score}"
get_score(p) == ToString(p.left_score) \o " - " \o ToString(p.right_score)

\* for _ in range(frames_per_update): the list of k references to x
Repeat(x, k) == [j \in 1..k |-> x]

\* the loop of simulate_pong_game, lines 212-219, with todo iterations left;
\* d is the draw of every reset_ball call
RECURSIVE pong_updates(_, _, _, _, _, _)
pong_updates(p, todo, k, d, fs, ss) ==
    IF todo <= 0 THEN [frames |-> fs, scores |-> ss]
    ELSE pong_updates(update(p, d).p, todo - 1, k, d,
                      fs \o Repeat(get_frame(p), k),
                      ss \o Repeat(get_score(p), k))

\* simulate_pong_game(num_game_updates, frames_per_update) with d0 the draws
\* of PongGame.__init__
simulate_pong_game(n, k, d0, d) == pong_updates(NewPong(d0), n, k, d, <<>>, <<>>)

----------------------------------------------------------------------------
(* The renderers: create_arcade_svg (generate-tetris.py,                   *)
(* generate-welcome.py) and create_contribution_svg (generate-pong.py).    *)
(* A duration is a fraction of seconds [num, den].                         *)

PIECE_COLORS ==
    [t \in PieceTypes |->
        CASE t = "I" -> "#00ffff"
          [] t = "O" -> "#ffff00"
          [] t = "T" -> "#ff00ff"
          [] t = "S" -> "#00ff00"
          [] t = "Z" -> "#ff0000"
          [] t = "J" -> "#0080ff"
          [] t = "L" -> "#ff8000"]

TETRIS_EMPTY_COLOR == "#1a1a2e"

\* generate-tetris.py, lines 243-257: the colour of cell (row, col) in frame f
tetris_cell_color(f, row, col) ==
    LET board_color == IF Cell(f.board, row, col) # None
                       THEN PIECE_COLORS[Cell(f.board, row, col)]
                       ELSE TETRIS_EMPTY_COLOR
        covered == /\ f.piece # NoPiece
                   /\ \E i \in 1..Len(f.piece) :
                        /\ f.piece_row + f.piece[i][1] = row
                        /\ f.piece_col + f.piece[i][2] = col
    IN  IF covered THEN PIECE_COLORS[f.piece_type] ELSE board_color

\* the list colors of cell (row, col): one colour per frame
cell_colors(g, fs, row, col) ==
    IF g = "tetris"
    THEN [i \in 1..Len(fs) |-> tetris_cell_color(fs[i], row, col)]
    ELSE [i \in 1..Len(fs) |-> fs[i][row + 1][col + 1]]

\* ';'.join(colors): the colours with a separator between neighbours
RECURSIVE Join(_)
Join(colors) ==
    IF Len(colors) = 0 THEN <<>>
    ELSE IF Len(colors) = 1 THEN <<colors[1]>>
    ELSE <<colors[1], ";">> \o Join(Tail(colors))

\* total_duration = len(frames) * frame_duration
total_duration(fs, fd) == [num |-> Len(fs) * fd.num, den |-> fd.den]

\* f"{total_duration:.3f}": the duration rounded to thousandths of a second
format_3f(t) == [num |-> (2000 * t.num + t.den) \div (2 * t.den), den |-> 1000]

\* the dur attribute of the animate element
dur_attribute(g, fs, fd) ==
    IF g = "pong" THEN format_3f(total_duration(fs, fd)) ELSE total_duration(fs, fd)

\* rows and columns of the cell loops
RenderRows(g) ==
    IF g = "tetris" THEN GAME_ROWS ELSE IF g = "pong" THEN GRID_ROWS ELSE WELCOME_GRID_ROWS

RenderCols(g) ==
    IF g = "tetris" THEN GAME_COLS ELSE IF g = "pong" THEN GRID_COLS ELSE WELCOME_GRID_COLS

\* the colours of the first and the last frame only
ColorSetEnds(colors) == {colors[i] : i \in {1, Len(colors)} \cap (1..Len(colors))}

\* the set of the colours of a list
ColorSet(colors) == {colors[i] : i \in 1..Len(colors)}

\* one iteration of the cell loops: the rectangle appended to svg, or the
\* IndexError of colors[0]
render_cell(g, fs, fd, row, col) ==
    LET colors == cell_colors(g, fs, row, col)
    IN  IF Cardinality(ColorSet(colors)) > 1
        THEN [raised |-> FALSE,
              rect |-> [row |-> row, col |-> col, animated |-> TRUE, fill |-> "",
                        values |-> Join(colors), dur |-> dur_attribute(g, fs, fd)]]
        ELSE IF Len(colors) = 0
        THEN [raised |-> TRUE, rect |-> NoRect]
        ELSE [raised |-> FALSE,
              rect |-> [row |-> row, col |-> col, animated |-> FALSE,
                        fill |-> colors[0 + 1], values |-> <<>>,
                        dur |-> [num |-> 0, den |-> 1]]]

----------------------------------------------------------------------------
(* The rendering run: the __main__ block of a script after its simulation  *)
(* has returned frames                                                     *)

\* piece types and action draws of the games whose frames are rendered
RenderScripts ==
    { <<>>,
      << <<"O", <<>> >> >>,
      << <<"T", <<"rotate", "left">> >> >>,
      << <<"I", <<"rotate">> >>, <<"O", <<"left">> >> >> }

\* frame_duration: the value __main__ passes and the default
FrameDurations(g) ==
    IF g = "tetris" THEN {[num |-> 1, den |-> 10], [num |-> 12, den |-> 100]}
    ELSE IF g = "pong" THEN {[num |-> 1, den |-> 24], [num |-> 1, den |-> 120]}
    ELSE {[num |-> 12, den |-> 100], [num |-> 15, den |-> 100]}

\* the draws of PongGame.__init__ of the rendered games
RenderDraws ==
    {d \in MissDraws : /\ d.will_miss_left = d.will_miss_right
                       /\ d.miss_direction_left = 1
                       /\ d.miss_direction_right = 1}

\* the level draws of the rendered reveal frames, repeated every four frames
RenderPattern == <<"low", "high", "even", "odd">>

\* the frame lists simulate_game returns for the scripted games
TetrisFrameLists ==
    {simulate_game(NewGame(GAME_ROWS), GAME_ROWS, script, 1, <<>>) : script \in RenderScripts}

RenderInit ==
    /\ gen \in {"tetris", "pong", "welcome"}
    /\ TetrisIdle
    /\ PongIdle
    /\ WelcomeIdle
    /\ HeapIdle
    /\ frame_duration \in FrameDurations(gen)
    /\ \/ /\ gen = "tetris"
          /\ frames \in TetrisFrameLists
          /\ scores = <<>>
       \/ /\ gen = "pong"
          /\ \E n \in 0..MaxUpdates, k \in 1..MaxRepeat, d0 \in RenderDraws :
                LET out == simulate_pong_game(n, k, d0, CHOOSE d \in ResetDraws : TRUE)
                IN  frames = out.frames /\ scores = out.scores
       \/ /\ gen = "welcome"
          /\ \E grid \in {build_welcome_grid, PrefixGrid(0)} :
                frames = generate_animation_frames(grid, RenderPattern)
          /\ scores = <<>>
    /\ rpc = "start"
    /\ cells_done = 0
    /\ rect = NoRect

\* the renderer up to its cell loops; create_contribution_svg reads scores[0]
RenderStartStep ==
    /\ rpc = "start"
    /\ ~(gen = "pong" /\ Len(scores) = 0)
    /\ rpc' = "cells"
    /\ UNCHANGED <<gen, tvars, pvars, wvars, hvars, frames, scores, frame_duration,
                   cells_done, rect>>

\* generate-pong.py, line 263: scores[0] of an empty list
RenderScoresRaiseStep ==
    /\ rpc = "start"
    /\ gen = "pong" /\ Len(scores) = 0
    /\ rpc' = "raised"
    /\ UNCHANGED <<gen, tvars, pvars, wvars, hvars, frames, scores, frame_duration,
                   cells_done, rect>>

\* one iteration of the cell loops that appends a rectangle
RenderCellStep ==
    /\ rpc = "cells"
    /\ cells_done < RenderRows(gen) * RenderCols(gen)
    /\ LET r == render_cell(gen, frames, frame_duration,
                            cells_done \div RenderCols(gen),
                            cells_done % RenderCols(gen))
       IN  /\ ~r.raised
           /\ rect' = r.rect
    /\ cells_done' = cells_done + 1
    /\ UNCHANGED <<gen, tvars, pvars, wvars, hvars, frames, scores, frame_duration, rpc>>

\* one iteration of the cell loops in which colors[0] raises IndexError
RenderCellRaiseStep ==
    /\ rpc = "cells"
    /\ cells_done < RenderRows(gen) * RenderCols(gen)
    /\ render_cell(gen, frames, frame_duration,
                   cells_done \div RenderCols(gen),
                   cells_done % RenderCols(gen)).raised
    /\ rpc' = "raised"
    /\ UNCHANGED <<gen, tvars, pvars, wvars, hvars, frames, scores, frame_duration,
                   cells_done, rect>>

\* return svg
RenderReturnStep ==
    /\ rpc = "cells"
    /\ cells_done >= RenderRows(gen) * RenderCols(gen)
    /\ rpc' = "done"
    /\ UNCHANGED <<gen, tvars, pvars, wvars, hvars, frames, scores, frame_duration,
                   cells_done, rect>>

RenderNext ==
    \/ RenderStartStep
    \/ RenderScoresRaiseStep
    \/ RenderCellStep
    \/ RenderCellRaiseStep
    \/ RenderReturnStep

SpecRender == RenderInit /\ [][RenderNext]_vars

----------------------------------------------------------------------------
(* The list objects of the simulations. A row list has an identity, its    *)
(* position in heap; self.board and every captured frame hold identities,  *)
(* so a write through one holder is seen by every holder of the same row.  *)

\* the rows the identities ids name
Deref(h, ids) == [r \in 1..Len(ids) |-> h[ids[r]]]

\* new row lists with the contents rows
alloc_rows(h, rows) ==
    [heap |-> h \o rows, ids |-> [r \in 1..Len(rows) |-> Len(h) + r]]

\* 'board': self.board, the frame holding the board's own row lists
capture_rows_shared(h, ids) == [heap |-> h, ids |-> ids]

\* capture_frame, line 129: copy.deepcopy(self.board)
capture_rows(h, ids) == alloc_rows(h, Deref(h, ids))

\* lock_piece, line 113: self.board[r][c] = self.current_type writes into
\* the row lists of the board
heap_lock(h, ids, rows, piece, type, row, col) ==
    LET lb == lock_piece(Deref(h, ids), rows, piece, type, row, col)
    IN  [i \in 1..Len(h) |->
            IF \E r \in 1..Len(ids) : ids[r] = i
            THEN lb[CHOOSE r \in 1..Len(ids) : ids[r] = i]
            ELSE h[i]]

\* clear_lines, lines 120-122: del self.board[r] and the insertion of a new
\* row list at the top, for the lines from position i on
RECURSIVE heap_clear_rows(_, _, _, _)
heap_clear_rows(h, ids, lines, i) ==
    IF i > Len(lines) THEN [heap |-> h, ids |-> ids]
    ELSE heap_clear_rows(Append(h, EmptyRow),
                         <<Len(h) + 1>> \o DelRow(ids, lines[i]),
                         lines, i + 1)

\* line 142: self.board = [[None ...] ...], all row lists new
heap_reset(h, rows) == alloc_rows(h, EmptyBoard(rows))

\* the game read through the row lists of self.board
HeapGame == [Game EXCEPT !.board = Deref(heap, board_ids)]

\* what a holder of the frame f reads
FrameContents(h, f) ==
    IF gen = "tetris" THEN [f EXCEPT !.board = Deref(h, f.board)] ELSE Deref(h, f)

\* the runs followed: the game at the top of the for loop and the draws
HeapRuns ==
    { [game |-> FreshGame,
       draws |-> << <<"I", <<"rotate">> >>, <<"O", <<"left">> >> >>],
      [game |-> PairGame, draws |-> ClearScript],
      [game |-> TowerGame, draws |-> << <<"T", <<"right", "rotate">> >> >>] }

HeapInit ==
    /\ gen \in {"tetris", "pong"}
    /\ RenderIdle
    /\ WelcomeIdle
    /\ \/ /\ gen = "tetris"
          /\ PongIdle
          /\ game_rows = GAME_ROWS
          /\ \E run \in HeapRuns :
                /\ draw_script = run.draws
                /\ num_pieces = Len(run.draws)
                /\ heap = run.game.board
                /\ board_ids = [r \in 1..GAME_ROWS |-> r]
                /\ board = run.game.board
                /\ current_piece = run.game.piece
                /\ current_type = run.game.type
                /\ current_rotation = run.game.rotation
                /\ current_row = run.game.row
                /\ current_col = run.game.col
                /\ lines_cleared = run.game.lines_cleared
                /\ score = run.game.score
                /\ locked_board = run.game.board
          /\ frame = NoFrame
          /\ pc = "spawn"
          /\ pieces_done = 0
          /\ falls = 0
          /\ acted = FALSE
          /\ spawn_failed = FALSE
          /\ last_cleared = 0
          /\ frames_per_update = 0
          /\ num_game_updates = 0
       \/ /\ gen = "pong"
          /\ TetrisIdle
          /\ \E d \in MissDraws :
                LET p == NewPong(d)
                IN  /\ ball_x = p.ball_x
                    /\ ball_y = p.ball_y
                    /\ ball_vx = p.ball_vx
                    /\ ball_vy = p.ball_vy
                    /\ left_paddle_y = p.left_paddle_y
                    /\ right_paddle_y = p.right_paddle_y
                    /\ left_score = p.left_score
                    /\ right_score = p.right_score
                    /\ will_miss_left = p.will_miss_left
                    /\ will_miss_right = p.will_miss_right
                    /\ miss_direction_left = p.miss_direction_left
                    /\ miss_direction_right = p.miss_direction_right
          /\ pong_frame = <<>>
          /\ first_leg = TRUE
          /\ heap = <<>>
          /\ board_ids = <<>>
          /\ draw_script = <<>>
          /\ frames_per_update \in 1..MaxRepeat
          /\ num_game_updates = MaxUpdates
    /\ frame_refs = <<>>

\* lines 141-145: spawn, on failure a new board and the retry, capture_frame
HeapSpawnStep ==
    /\ gen = "tetris"
    /\ pc = "spawn"
    /\ pieces_done < num_pieces
    /\ LET t == draw_script[pieces_done + 1][1]
           ok == spawn_piece(HeapGame.board, game_rows, t).ok
           b == IF ok THEN [heap |-> heap, ids |-> board_ids]
                ELSE heap_reset(heap, game_rows)
           g == do_spawn(HeapGame, game_rows, t, t)
           c == capture_rows(b.heap, b.ids)
       IN  /\ SetGame([g EXCEPT !.board = Deref(b.heap, b.ids)])
           /\ frame' = FrameOf(g)
           /\ spawn_failed' = ~ok
           /\ heap' = c.heap
           /\ board_ids' = b.ids
           /\ frame_refs' = Append(frame_refs, [FrameOf(g) EXCEPT !.board = c.ids])
    /\ pc' = "tick"
    /\ falls' = 0
    /\ acted' = FALSE
    /\ UNCHANGED <<gen, game_rows, num_pieces, pieces_done, locked_board, last_cleared>>
    /\ UNCHANGED <<pvars, wvars, rvars, draw_script, frames_per_update,
                   num_game_updates>>

\* lines 147-154: the action of this tick's draw, then capture_frame
HeapTickStep ==
    /\ gen = "tetris"
    /\ pc = "tick"
    /\ LET draws == draw_script[pieces_done + 1][2]
           a == IF falls + 1 <= Len(draws) THEN draws[falls + 1] ELSE "none"
           g == do_action(HeapGame, game_rows, a)
           c == capture_rows(heap, board_ids)
       IN  /\ SetGame(g)
           /\ frame' = FrameOf(g)
           /\ acted' = (acted \/ a # "none")
           /\ heap' = c.heap
           /\ frame_refs' = Append(frame_refs, [FrameOf(g) EXCEPT !.board = c.ids])
    /\ pc' = "fall"
    /\ UNCHANGED <<gen, game_rows, num_pieces, pieces_done, falls, spawn_failed,
                   locked_board, last_cleared>>
    /\ UNCHANGED <<pvars, wvars, rvars, board_ids, draw_script, frames_per_update,
                   num_game_updates>>

\* line 155, the downward move succeeds
HeapFallStep ==
    /\ gen = "tetris"
    /\ pc = "fall"
    /\ LET f == do_fall(HeapGame, game_rows)
       IN  /\ ~f.locked
           /\ SetGame(f.g)
    /\ pc' = "tick"
    /\ falls' = falls + 1
    /\ UNCHANGED <<gen, game_rows, num_pieces, frame, pieces_done, acted,
                   spawn_failed, locked_board, last_cleared>>
    /\ UNCHANGED <<pvars, wvars, rvars, hvars>>

\* lines 155-160: the downward move fails; lock_piece, clear_lines,
\* capture_frame
HeapLockStep ==
    /\ gen = "tetris"
    /\ pc = "fall"
    /\ LET g0 == HeapGame
           f == do_fall(g0, game_rows)
           h1 == heap_lock(heap, board_ids, game_rows, g0.piece, g0.type, g0.row, g0.col)
           cl == heap_clear_rows(h1, board_ids,
                                 lines_to_clear(Deref(h1, board_ids), game_rows), 1)
           g == [f.g EXCEPT !.board = Deref(cl.heap, cl.ids)]
           c == capture_rows(cl.heap, cl.ids)
       IN  /\ f.locked
           /\ SetGame(g)
           /\ frame' = FrameOf(g)
           /\ locked_board' = Deref(h1, board_ids)
           /\ last_cleared' = f.cleared
           /\ heap' = c.heap
           /\ board_ids' = cl.ids
           /\ frame_refs' = Append(frame_refs, [FrameOf(g) EXCEPT !.board = c.ids])
    /\ pc' = "spawn"
    /\ pieces_done' = pieces_done + 1
    /\ UNCHANGED <<gen, game_rows, num_pieces, falls, acted, spawn_failed>>
    /\ UNCHANGED <<pvars, wvars, rvars, draw_script, frames_per_update,
                   num_game_updates>>

\* return self.frames
HeapReturnStep ==
    /\ gen = "tetris"
    /\ pc = "spawn"
    /\ pieces_done >= num_pieces
    /\ pc' = "done"
    /\ UNCHANGED <<gen, game_rows, num_pieces, board, current_piece, current_type,
                   current_rotation, current_row, current_col, score,
                   lines_cleared, frame, pieces_done, falls, acted,
                   spawn_failed, locked_board, last_cleared>>
    /\ UNCHANGED <<pvars, wvars, rvars, hvars>>

\* one iteration of simulate_pong_game's loop, lines 212-219: get_frame
\* builds new row lists, the frame is appended frames_per_update times,
\* update assigns the fields of the game only
HeapPongStep ==
    /\ gen = "pong"
    /\ Len(frame_refs) < num_game_updates * frames_per_update
    /\ \E d \in ResetDraws :
        LET u == update(Pong, d)
            c == alloc_rows(heap, get_frame(Pong))
        IN  /\ u.scored \/ d = CHOOSE d0 \in ResetDraws : TRUE
            /\ SetPong(u.p)
            /\ first_leg' = (first_leg /\ ~u.hit /\ ~u.scored /\ ~RowCrossing)
            /\ heap' = c.heap
            /\ frame_refs' = frame_refs \o Repeat(c.ids, frames_per_update)
    /\ pong_frame' = get_frame(Pong)
    /\ UNCHANGED <<gen, tvars, wvars, rvars, board_ids, draw_script, frames_per_update,
                   num_game_updates>>

HeapNext ==
    \/ HeapSpawnStep
    \/ HeapTickStep
    \/ HeapFallStep
    \/ HeapLockStep
    \/ HeapReturnStep
    \/ HeapPongStep

SpecHeap == HeapInit /\ [][HeapNext]_vars

----------------------------------------------------------------------------
(* simulate_pong_game followed iteration by iteration: frames and scores   *)
(* are its local lists                                                     *)

\* one iteration with update called before get_frame and get_score
pong_iteration_update_first(p, k, d, fs, ss) ==
    [p |-> update(p, d).p,
     frames |-> fs \o Repeat(get_frame(update(p, d).p), k),
     scores |-> ss \o Repeat(get_score(update(p, d).p), k)]

\* the body of the for loop, lines 213-219
pong_iteration(p, k, d, fs, ss) ==
    [p |-> update(p, d).p,
     frames |-> fs \o Repeat(get_frame(p), k),
     scores |-> ss \o Repeat(get_score(p), k)]

SimPongInit ==
    /\ gen = "pong"
    /\ TetrisIdle
    /\ WelcomeIdle
    /\ \E d \in RenderDraws :
        LET p == NewPong(d)
        IN  /\ ball_x = p.ball_x
            /\ ball_y = p.ball_y
            /\ ball_vx = p.ball_vx
            /\ ball_vy = p.ball_vy
            /\ left_paddle_y = p.left_paddle_y
            /\ right_paddle_y = p.right_paddle_y
            /\ left_score = p.left_score
            /\ right_score = p.right_score
            /\ will_miss_left = p.will_miss_left
            /\ will_miss_right = p.will_miss_right
            /\ miss_direction_left = p.miss_direction_left
            /\ miss_direction_right = p.miss_direction_right
    /\ pong_frame = <<>>
    /\ first_leg = TRUE
    /\ frames = <<>>
    /\ scores = <<>>
    /\ frame_duration = [num |-> 0, den |-> 1]
    /\ rpc = "idle"
    /\ cells_done = 0
    /\ rect = NoRect
    /\ heap = <<>>
    /\ board_ids = <<>>
    /\ frame_refs = <<>>
    /\ draw_script = <<>>
    /\ frames_per_update \in 1..MaxRepeat
    /\ num_game_updates \in 0..MaxSimUpdates

\* one iteration of the for loop; d is the draw of reset_ball if update
\* scores
SimPongStep ==
    /\ gen = "pong"
    /\ Len(frames) < num_game_updates * frames_per_update
    /\ \E d \in ResetDraws :
        LET u == update(Pong, d)
            it == pong_iteration(Pong, frames_per_update, d, frames, scores)
        IN  /\ u.scored \/ d = CHOOSE d0 \in ResetDraws : TRUE
            /\ SetPong(it.p)
            /\ first_leg' = (first_leg /\ ~u.hit /\ ~u.scored /\ ~RowCrossing)
            /\ frames' = it.frames
            /\ scores' = it.scores
    /\ pong_frame' = get_frame(Pong)
    /\ UNCHANGED <<gen, tvars, wvars, hvars, frame_duration, rpc, cells_done, rect>>

SimPongNext == SimPongStep

SpecSimPong == SimPongInit /\ [][SimPongNext]_vars

----------------------------------------------------------------------------
(* Scenario A: one piece on an empty board of GAME_ROWS rows, and of the   *)
(* 20 rows the specification names                                         *)

ScenarioAInit ==
    /\ \E rows \in {GAME_ROWS, ScenarioRows} :
        TetrisInitWith(rows, {NewGame(rows)})
    /\ PongIdle
    /\ WelcomeIdle

SpecScenarioA == ScenarioAInit /\ [][TetrisNext]_vars

----------------------------------------------------------------------------
(* Runs that continue a game with lines cleared: from the tower, whose     *)
(* next spawn fails, and from the board with two nearly full rows          *)

RecoveryInit ==
    /\ TetrisInitWith(GAME_ROWS, RecoveryGames)
    /\ PongIdle
    /\ WelcomeIdle

SpecRecovery == RecoveryInit /\ [][TetrisNext]_vars

----------------------------------------------------------------------------
(* Properties *)

\* every cell of the piece at (row, col) is inside the rows x GAME_COLS board
\* b and unoccupied there
PieceCellsFree(b, rows, piece, row, col) ==
    \A i \in 1..Len(piece) :
        LET r == row + piece[i][1]
            c == col + piece[i][2]
        IN  /\ 0 <= r /\ r < rows /\ r < Len(b)
            /\ 0 <= c /\ c < GAME_COLS
            /\ b[r + 1][c + 1] = None

OccupiedCells(b) ==
    {rc \in (1..Len(b)) \X (1..GAME_COLS) : b[rc[1]][rc[2]] # None}

FullRows(b) == {r \in 0..(Len(b) - 1) : \A c \in 1..GAME_COLS : b[r + 1][c] # None}

\* the state right after lock_piece and clear_lines
JustLocked == gen = "tetris" /\ pc = "spawn" /\ pieces_done > 0

\* the state right after a spawn and its capture_frame
JustSpawned == gen = "tetris" /\ pc = "tick" /\ falls = 0

(* C1: in every frame that carries an active piece, every cell of the     *)
(* piece is inside the board and unoccupied in the frame's board; the     *)
(* same holds of the piece and the board when the downward move is tried  *)
(* and lock_piece runs.                                                   *)
C1_PiecePlacement ==
    gen = "tetris" =>
        /\ (frame # NoFrame /\ frame.piece # NoPiece) =>
              PieceCellsFree(frame.board, game_rows, frame.piece,
                             frame.piece_row, frame.piece_col)
        /\ pc \in {"tick", "fall"} =>
              /\ current_piece # NoPiece
              /\ PieceCellsFree(board, game_rows, current_piece,
                                current_row, current_col)

\* a turned piece that was moved rests on a stack and is about to be locked
C1_Witness ==
    /\ gen = "tetris"
    /\ pc = "fall"
    /\ acted
    /\ current_rotation # 0
    /\ board # EmptyBoard(game_rows)
    /\ current_row + 4 < game_rows
    /\ ~try_move(board, game_rows, current_piece, current_row, current_col, 1, 0).ok

(* C2: after clear_lines no row of the board is fully occupied, the board *)
(* has GAME_ROWS rows of GAME_COLS cells, and as many empty rows stand at *)
(* the top as full rows were removed (the other cells are all kept).      *)
C2_LineClear ==
    gen = "tetris" =>
        /\ Len(board) = game_rows
        /\ \A r \in 1..Len(board) : Len(board[r]) = GAME_COLS
        /\ \A r \in 1..Len(board) : \E c \in 1..GAME_COLS : board[r][c] = None
        /\ JustLocked =>
              LET k == Cardinality(FullRows(locked_board))
              IN  /\ Len(board) = Len(locked_board)
                  /\ last_cleared = k
                  /\ \A r \in 1..k : board[r] = EmptyRow
                  /\ Cardinality(OccupiedCells(board))
                        = Cardinality(OccupiedCells(locked_board)) - k * GAME_COLS

\* a lock filled two rows that are not adjacent
C2_Witness ==
    /\ JustLocked
    /\ \E r1, r2 \in FullRows(locked_board) : r2 > r1 + 1

InGrid(y) == 0 <= y /\ y < GRID_ROWS

Scored == left_score' + right_score' # left_score + right_score

Clamped ==
    /\ ball_y + ball_vy < 0 => ball_y' = 0
    /\ ball_y + ball_vy >= GRID_ROWS => ball_y' = GRID_ROWS - 1

(* C3 as stated: the ball's row stays in [0, GRID_ROWS), and in every     *)
(* update whose candidate row leaves that range the row is clamped to the *)
(* boundary row and ball_vy is inverted.                                  *)
C3_Original ==
    [][gen = "pong" =>
          /\ InGrid(ball_y')
          /\ RowCrossing => (Clamped /\ ball_vy' = -ball_vy)]_vars

(* C3 amended: the ball's row stays in [0, GRID_ROWS); in every update    *)
(* whose candidate row leaves that range and that does not score, the row *)
(* is clamped to the boundary row and ball_vy is inverted; in one that    *)
(* scores, reset_ball puts the ball on the centre row with a drawn ball_vy.*)
C3_Amended ==
    [][gen = "pong" =>
          /\ InGrid(ball_y)
          /\ InGrid(ball_y')
          /\ (RowCrossing /\ ~Scored) => (Clamped /\ ball_vy' = -ball_vy)
          /\ (RowCrossing /\ Scored) =>
                (ball_y' = GRID_ROWS \div 2 /\ ball_vy' \in Signs)]_vars

\* the ball has bounced off the top wall in a rally after a score
C3_Witness ==
    /\ gen = "pong"
    /\ ball_y = 0
    /\ ball_vy = 1
    /\ left_score + right_score > 0

GridShape(f, rows, cols) ==
    /\ Len(f) = rows
    /\ \A r \in 1..Len(f) : Len(f[r]) = cols

BoardValues == PieceTypes \cup {None}

Colors == {EMPTY_COLOR} \cup {CONTRIB_COLORS[i] : i \in 1..Len(CONTRIB_COLORS)}

(* C4: every cell of every frame holds a value of the generator's         *)
(* enumeration (Tetris: None or a piece type, and the frame's piece type  *)
(* is a piece type; Pong and Welcome: EMPTY_COLOR or a CONTRIB_COLORS     *)
(* entry), and every frame has the generator's rows and columns.          *)
C4_FrameValues ==
    /\ (gen = "tetris" /\ frame # NoFrame) =>
          /\ GridShape(frame.board, game_rows, GAME_COLS)
          /\ frame.board \in [1..game_rows -> [1..GAME_COLS -> BoardValues]]
          /\ frame.piece_type \in PieceTypes
    /\ (gen = "pong" /\ pong_frame # <<>>) =>
          /\ GridShape(pong_frame, GRID_ROWS, GRID_COLS)
          /\ pong_frame \in [1..GRID_ROWS -> [1..GRID_COLS -> Colors]]
    /\ (gen = "welcome" /\ wframe # <<>>) =>
          /\ GridShape(wframe, WELCOME_GRID_ROWS, WELCOME_GRID_COLS)
          /\ wframe \in [1..WELCOME_GRID_ROWS -> [1..WELCOME_GRID_COLS -> Colors]]

\* the settle frame of a piece whose lock cleared a line
C4_Witness ==
    /\ JustLocked
    /\ last_cleared > 0
    /\ frame.piece = NoPiece
    /\ OccupiedCells(frame.board) # {}

(* C6: on an empty board of game_rows rows (16 and 20) an O piece for     *)
(* which no left/right/rotate action is drawn makes exactly game_rows - 2 *)
(* downward moves, and then locks in the two bottom rows.                 *)
C6_ScenarioA ==
    (gen = "tetris" /\ current_type = "O" /\ ~acted /\ ~spawn_failed) =>
        /\ (pieces_done = 0 /\ pc \in {"tick", "fall"}) =>
              (falls = current_row /\ falls <= game_rows - 2)
        /\ (pieces_done = 0 /\ pc = "fall" /\ falls < game_rows - 2) =>
              try_move(board, game_rows, current_piece, current_row,
                       current_col, 1, 0).ok
        /\ (pieces_done = 1 /\ pc \in {"spawn", "done"}) =>
              /\ falls = game_rows - 2
              /\ OccupiedCells(locked_board)
                    = {game_rows - 1, game_rows} \X {4, 5}

\* the untouched O piece has locked on the board of 20 rows
C6_Witness ==
    /\ gen = "tetris"
    /\ game_rows = ScenarioRows
    /\ pieces_done = 1
    /\ pc = "spawn"
    /\ current_type = "O"
    /\ ~acted

(* C7: from the initial state the velocity stays (+1, +1) until the first *)
(* update whose candidate row exceeds row 6; in that update the ball      *)
(* stays on row 6 and the velocity becomes (+1, -1); nothing else (a      *)
(* paddle hit, a score) happens before it.                                *)
C7_FirstBounce ==
    [][(gen = "pong" /\ first_leg) =>
          /\ ball_vx = 1 /\ ball_vy = 1
          /\ IF ball_y + ball_vy > GRID_ROWS - 1
             THEN /\ ball_y = GRID_ROWS - 1
                  /\ ball_y' = GRID_ROWS - 1
                  /\ ball_vx' = 1 /\ ball_vy' = -1
                  /\ ~first_leg'
             ELSE /\ ball_y' = ball_y + 1
                  /\ ball_vx' = 1 /\ ball_vy' = 1
                  /\ first_leg']_vars

\* the first bounce has just happened
C7_Witness ==
    /\ gen = "pong"
    /\ ~first_leg
    /\ left_score + right_score = 0
    /\ ball_x = GRID_COLS \div 2 + 4
    /\ ball_y = GRID_ROWS - 1
    /\ ball_vx = 1
    /\ ball_vy = -1

ColouredCells(f) ==
    {rc \in (1..Len(f)) \X (1..WELCOME_GRID_COLS) : f[rc[1]][rc[2]] # EMPTY_COLOR}

FilledCount(grid) == Len(filled_cells(grid))

C9_AllRevealed ==
    (gen = "welcome" /\ base_grid = build_welcome_grid /\ wpc = "reveal"
        /\ frame_idx = REVEAL_FRAMES) =>
        \A r \in 1..WELCOME_GRID_ROWS : \A c \in 1..WELCOME_GRID_COLS :
            base_grid[r][c] # 0 => wframe[r][c] # EMPTY_COLOR

(* C11 as stated: when the retried piece spawns after a spawn failure the *)
(* board is empty, the score is 0 and lines_cleared is 0.                 *)
C11_FullReset ==
    (JustSpawned /\ spawn_failed) =>
        /\ board = EmptyBoard(game_rows)
        /\ score = 0
        /\ lines_cleared = 0

(* C12: simulate_game terminates.  In every tick the piece descends       *)
(* exactly one row or is locked, and its row never decreases; a piece is  *)
(* locked in at most GAME_ROWS ticks; only a lock produces a frame with   *)
(* no active piece; the run ends, and when it has ended exactly           *)
(* num_pieces pieces were locked.                                         *)
C12_Termination ==
    /\ [](gen = "tetris" =>
            /\ pc \in {"tick", "fall"} =>
                  (falls = current_row /\ falls + 1 <= game_rows)
            /\ pieces_done <= num_pieces
            /\ pc = "done" => pieces_done = num_pieces
            /\ (frame # NoFrame /\ frame.piece = NoPiece) =>
                  (pc \in {"spawn", "done"} /\ pieces_done > 0))
    /\ [][gen = "tetris" =>
            /\ pc = "tick" => (pc' = "fall" /\ current_row' = current_row)
            /\ pc = "fall" =>
                  \/ /\ pc' = "tick"
                     /\ current_row' = current_row + 1
                     /\ pieces_done' = pieces_done
                     /\ current_piece' # NoPiece
                  \/ /\ pc' = "spawn"
                     /\ pieces_done' = pieces_done + 1
                     /\ current_piece' = NoPiece
                     /\ frame'.piece = NoPiece
            /\ pc # "fall" => pieces_done' = pieces_done]_vars
    /\ <>(pc = "done")

\* the run of num_pieces pieces has ended, its last piece locked in the
\* GAME_ROWS-th tick
C12_Witness ==
    /\ gen = "tetris"
    /\ pc = "done"
    /\ num_pieces = MaxPieces
    /\ pieces_done = num_pieces
    /\ falls + 1 = game_rows

(* C13 as stated: rendering the frames a simulation returned completes    *)
(* without an index out of range, for every num_pieces >= 0 and every     *)
(* num_game_updates >= 0.                                                  *)
C13_NoIndexError == rpc # "raised"

(* C14: a frame never changes after it is captured: every step of          *)
(* simulate_game (move, rotation, lock, line clear, board reset) and of    *)
(* simulate_pong_game (update) leaves every frame already in the list in   *)
(* its place and with the contents it had, and new frames are appended at  *)
(* the end.                                                                *)
C14_FramesImmutable ==
    [][/\ Len(frame_refs') >= Len(frame_refs)
       /\ \A i \in 1..Len(frame_refs) :
            /\ frame_refs'[i] = frame_refs[i]
            /\ FrameContents(heap', frame_refs[i]) = FrameContents(heap, frame_refs[i])]_vars

(* C19: a lock that clears k full rows, k >= 0, adds 100 * k to the score  *)
(* and k to lines_cleared; a tick that does not lock, and a spawn that     *)
(* succeeds, change neither.                                               *)
C19_ClearAccounting ==
    [][gen = "tetris" =>
          /\ (pc = "fall" /\ pc' = "spawn") =>
                /\ score' = score + 100 * Cardinality(FullRows(locked_board'))
                /\ lines_cleared' = lines_cleared + Cardinality(FullRows(locked_board'))
          /\ (pc \in {"tick", "fall"} /\ pc' # "spawn") =>
                (score' = score /\ lines_cleared' = lines_cleared)
          /\ (pc = "spawn" /\ ~spawn_failed') =>
                (score' = score /\ lines_cleared' = lines_cleared)]_vars

\* a lock has cleared two rows at once
C19_Witness ==
    /\ JustLocked
    /\ Cardinality(FullRows(locked_board)) = 2
    /\ score = 200
    /\ lines_cleared = 2

\* whether a row has an empty cell
NotFull(row) == \E c \in 1..GAME_COLS : row[c] = None

(* C20: clear_lines leaves, for a board with k full rows, k empty rows     *)
(* followed by the rows that were not full, in their order from top to     *)
(* bottom and with their contents.                                         *)
C20_SurvivorsKept ==
    JustLocked =>
        board = [i \in 1..Cardinality(FullRows(locked_board)) |-> EmptyRow]
                    \o SelectSeq(locked_board, NotFull)

\* two full rows were removed around a row that stays and moves down by one
C20_Witness ==
    /\ JustLocked
    /\ \E r1, r2 \in FullRows(locked_board) :
          \E r \in (r1 + 1)..(r2 - 1) :
              /\ r \notin FullRows(locked_board)
              /\ locked_board[r + 1] # EmptyRow
              /\ board[r + 2] = locked_board[r + 1]

\* what the frame appended last shows, before and after a step
LastFrame == FrameContents(heap, frame_refs[Len(frame_refs)])
LastFrameAfter == FrameContents(heap', frame_refs'[Len(frame_refs')])

\* the frame capture_frame builds from the fields a step leaves
FrameOfFieldsAfter ==
    capture_frame(board', current_type', current_piece', current_row',
                  current_col', score')

\* whether a step appends exactly one frame, showing the fields it leaves
OneFrameProduced ==
    /\ Len(frame_refs') = Len(frame_refs) + 1
    /\ SubSeq(frame_refs', 1, Len(frame_refs)) = frame_refs
    /\ LastFrameAfter = FrameOfFieldsAfter

(* C18 as stated: a frame after the spawn, in every tick a frame that      *)
(* shows the piece where it is after the tick's action and downward move,  *)
(* and a frame with no piece after lock and line clear.                    *)
C18_CaptureAfterFall ==
    [][gen = "tetris" =>
          /\ (pc = "spawn" /\ pc' = "tick") => OneFrameProduced
          /\ (pc = "fall" /\ pc' = "tick") =>
                /\ LastFrameAfter.piece_row = current_row'
                /\ LastFrameAfter.piece_col = current_col'
          /\ (pc = "fall" /\ pc' = "spawn") =>
                (OneFrameProduced /\ LastFrameAfter.piece = NoPiece)]_vars

(* C18: per piece one frame right after the spawn; in every tick one frame *)
(* after the tick's lateral move or rotation and before its downward move, *)
(* so that it shows the piece one row above where the tick leaves it; and  *)
(* one frame with no piece right after lock and line clear.                *)
C18_CaptureProtocol ==
    [][gen = "tetris" =>
          /\ (pc = "spawn" /\ pc' = "tick") =>
                (OneFrameProduced /\ LastFrameAfter.piece_row = 0)
          /\ (pc = "tick" /\ pc' = "fall") =>
                (OneFrameProduced /\ current_row' = current_row)
          /\ (pc = "fall" /\ pc' = "tick") =>
                /\ frame_refs' = frame_refs
                /\ current_row' = current_row + 1
                /\ current_col' = current_col
                /\ LastFrameAfter.piece_row = current_row' - 1
                /\ LastFrameAfter.piece_col = current_col'
                /\ LastFrameAfter.piece = current_piece'
          /\ (pc = "fall" /\ pc' = "spawn") =>
                /\ OneFrameProduced
                /\ LastFrameAfter.piece = NoPiece
                /\ LastFrameAfter.board = board'
          /\ (pc = "spawn" /\ pc' = "done") => frame_refs' = frame_refs]_vars

\* the return after two pieces with a move and a rotation: a frame per
\* spawn, per tick and per lock
C18_Witness ==
    /\ gen = "tetris"
    /\ pc = "done"
    /\ pieces_done > 1
    /\ Len(frame_refs) > 2 * pieces_done
    /\ \E i \in 1..Len(frame_refs) : frame_refs[i].piece_col # (GAME_COLS \div 2) - 2

\* the rotation state try_rotate targets for the current piece
NextRotation == (current_rotation + 1) % Len(PIECES[current_type])
NextPiece == PIECES[current_type][NextRotation + 1]

\* whether the rotated piece fits at the current row, offset columns aside
KickFits(offset) ==
    is_valid_position(board, game_rows, current_row, current_col + offset, NextPiece)

\* the game after the call of try_rotate in the current state
Rotated == do_action(Game, game_rows, "rotate")

\* whether try_rotate leaves rotation index, piece cells, row and column
RotationRejected ==
    /\ Rotated.rotation = current_rotation
    /\ Rotated.piece = current_piece
    /\ Rotated.row = current_row
    /\ Rotated.col = current_col

\* whether try_rotate adopts the next rotation state, offset columns aside
RotationAdopted(offset) ==
    /\ Rotated.rotation = NextRotation
    /\ Rotated.piece = NextPiece
    /\ Rotated.row = current_row
    /\ Rotated.col = current_col + offset

(* C17: try_rotate of a non-O piece adopts the next rotation state at the  *)
(* first of the offsets 0, -1, +1, -2, +2 at which it fits, shifting the   *)
(* column by that offset and leaving the row; with no fitting offset, and  *)
(* always for the O piece, rotation, cells, row and column stay.           *)
C17_WallKick ==
    (gen = "tetris" /\ pc = "tick") =>
        /\ Rotated.board = board /\ Rotated.type = current_type
        /\ current_type = "O" => RotationRejected
        /\ current_type # "O" =>
            IF KickFits(0) THEN RotationAdopted(0)
            ELSE IF KickFits(-1) THEN RotationAdopted(-1)
            ELSE IF KickFits(1) THEN RotationAdopted(1)
            ELSE IF KickFits(-2) THEN RotationAdopted(-2)
            ELSE IF KickFits(2) THEN RotationAdopted(2)
            ELSE RotationRejected

\* a piece that fits rotated neither in place nor one column to the left,
\* and one that fits both one column to the left and to the right
C17_Witness ==
    /\ gen = "tetris"
    /\ pc = "tick"
    /\ current_type # "O"
    /\ ~KickFits(0)
    /\ KickFits(-1)
    /\ KickFits(1)

\* whether the lists returned are complete
SimReturned == Len(frames) = num_game_updates * frames_per_update

(* C16: simulate_pong_game(n, k) returns a frame list and a score list of  *)
(* equal length n * k; entry i of each list belongs to the same game       *)
(* state; each state fills k consecutive entries; the first k entries show *)
(* the initial state (ball at the centre, score "0 - 0"); and update is    *)
(* applied exactly once between one state shown and the next.              *)
C16_ParallelLists ==
    /\ [](/\ Len(frames) = Len(scores)
          /\ Len(frames) % frames_per_update = 0
          /\ Len(frames) <= num_game_updates * frames_per_update
          /\ \A i \in 1..Len(frames) :
                LET first == ((i - 1) \div frames_per_update) * frames_per_update + 1
                IN  frames[i] = frames[first] /\ scores[i] = scores[first]
          /\ Len(frames) > 0 =>
                /\ scores[1] = "0 - 0"
                /\ \E d \in MissDraws : frames[1] = get_frame(NewPong(d))
                /\ frames[1][(GRID_ROWS \div 2) + 1][(GRID_COLS \div 2) + 1]
                      = CONTRIB_COLORS[3 + 1])
    /\ [][/\ Len(frames') = Len(frames) + frames_per_update
          /\ SubSeq(frames', 1, Len(frames)) = frames
          /\ SubSeq(scores', 1, Len(scores)) = scores
          /\ frames'[Len(frames')] = get_frame(Pong)
          /\ scores'[Len(scores')] = get_score(Pong)
          /\ \E d \in ResetDraws : Pong' = update(Pong, d).p]_vars

\* the lists are complete and the score changed on the way
C16_Witness ==
    /\ gen = "pong"
    /\ num_game_updates = MaxSimUpdates
    /\ SimReturned
    /\ frames_per_update > 1
    /\ scores[Len(scores)] # "0 - 0"

\* the cell the last iteration of the cell loops was about
LastRow == (cells_done - 1) \div RenderCols(gen)
LastCol == (cells_done - 1) % RenderCols(gen)

\* the colour of the last cell in frame i: in Tetris the active piece's
\* colour where the piece covers the cell, else the board's colour
LastCellColor(i) ==
    IF gen = "tetris"
    THEN LET f == frames[i]
         IN  IF /\ f.piece # NoPiece
                /\ \E k \in 1..Len(f.piece) :
                      /\ f.piece_row + f.piece[k][1] = LastRow
                      /\ f.piece_col + f.piece[k][2] = LastCol
             THEN PIECE_COLORS[f.piece_type]
             ELSE IF f.board[LastRow + 1][LastCol + 1] # None
             THEN PIECE_COLORS[f.board[LastRow + 1][LastCol + 1]]
             ELSE TETRIS_EMPTY_COLOR
    ELSE frames[i][LastRow + 1][LastCol + 1]

\* the rectangle of the last cell apart from its duration
CellRuleShape ==
    /\ rect.row = LastRow
    /\ rect.col = LastCol
    /\ rect.animated <=> \E i, j \in 1..Len(frames) : LastCellColor(i) # LastCellColor(j)
    /\ ~rect.animated => rect.fill = LastCellColor(1)
    /\ rect.animated =>
        /\ Len(rect.values) = 2 * Len(frames) - 1
        /\ \A i \in 1..Len(frames) : rect.values[2 * i - 1] = LastCellColor(i)
        /\ \A i \in 1..(Len(frames) - 1) : rect.values[2 * i] = ";"

\* whether the fraction a is the fraction b rounded to thousandths
RoundedToThousandths(a, b) ==
    /\ a.den = 1000
    /\ 2 * (a.num * b.den - 1000 * b.num) <= b.den
    /\ 2 * (1000 * b.num - a.num * b.den) < b.den

C14_Witness ==
    /\ Len(frame_refs) > 1
    /\ \/ gen = "tetris" /\ pc = "done" /\ (last_cleared > 0 \/ spawn_failed)
       \/ gen = "pong" /\ Len(frame_refs) = num_game_updates * frames_per_update

(* C10: when spawn_piece fails the board is wiped and the spawn retried:  *)
(* the first frame of every piece shows the active piece at the spawn     *)
(* position on free cells, on the empty board after a failure; the spawn  *)
(* on the empty board is valid for each of the seven piece types.         *)
C10_SpawnRecovery ==
    /\ (JustSpawned /\ spawn_failed) =>
          \A t \in PieceTypes :
              LET s == spawn_piece(board, game_rows, t)
              IN  s.ok /\ PieceCellsFree(board, game_rows, s.piece, s.row, s.col)
    /\ JustSpawned =>
          /\ frame.piece = current_piece
          /\ frame.piece # NoPiece
          /\ frame.piece_type = current_type
          /\ frame.piece_row = 0
          /\ frame.piece_col = GAME_COLS \div 2 - 2
          /\ frame.board = board
          /\ PieceCellsFree(frame.board, game_rows, frame.piece,
                            frame.piece_row, frame.piece_col)
          /\ spawn_failed => (board = EmptyBoard(game_rows) /\ score = 0)

\* a piece has spawned after a failed spawn
C10_Witness ==
    /\ JustSpawned
    /\ spawn_failed
    /\ current_type = "L"

----------------------------------------------------------------------------
(* PongGame.update seen from the state before the call                     *)

\* the ball's next row after the wall check
NextRow == wall_bounce(ball_y, ball_vy).next_y

\* the paddles after this update's paddle move and clamp
LeftPaddleMoved == clamp_paddle(move_left_paddle(Pong))
RightPaddleMoved == clamp_paddle(move_right_paddle(Pong))

\* the ball's next column leaves the grid on a side without a paddle hit
LeavesLeft ==
    ball_vx < 0 /\ ball_x + ball_vx < 0 /\ ~hits_paddle(LeftPaddleMoved, NextRow)
LeavesRight ==
    ball_vx > 0 /\ ball_x + ball_vx >= GRID_COLS
                /\ ~hits_paddle(RightPaddleMoved, NextRow)

\* the state reset_ball leaves, apart from the miss draws
BallAndPaddlesCentred ==
    /\ ball_x' = GRID_COLS \div 2
    /\ ball_y' = GRID_ROWS \div 2
    /\ ball_vx' \in Signs
    /\ ball_vy' \in Signs
    /\ left_paddle_y' = (GRID_ROWS - PADDLE_HEIGHT) \div 2
    /\ right_paddle_y' = (GRID_ROWS - PADDLE_HEIGHT) \div 2

(* C21: a score changes exactly in the updates in which the ball, moving   *)
(* toward a side, would leave the grid there without hitting that side's   *)
(* paddle; then the opposing side's score grows by 1, the other score      *)
(* stays, the ball is back at the centre cell with both velocity           *)
(* components in {-1, +1}, and both paddles are back at their centre row.  *)
C21_Scoring ==
    [][gen = "pong" =>
          /\ (left_score' # left_score \/ right_score' # right_score)
                <=> (LeavesLeft \/ LeavesRight)
          /\ LeavesLeft =>
                /\ right_score' = right_score + 1
                /\ left_score' = left_score
                /\ BallAndPaddlesCentred
          /\ LeavesRight =>
                /\ left_score' = left_score + 1
                /\ right_score' = right_score
                /\ BallAndPaddlesCentred]_vars

\* each side has scored once, with a paddle off its centre row at the
\* second score
C21_Witness ==
    /\ gen = "pong"
    /\ left_score = 1
    /\ right_score = 1
    /\ ball_x = GRID_COLS \div 2
    /\ ball_y = GRID_ROWS \div 2
    /\ left_paddle_y = (GRID_ROWS - PADDLE_HEIGHT) \div 2
    /\ right_paddle_y = (GRID_ROWS - PADDLE_HEIGHT) \div 2

\* the rows (1-based) of column col of frame f that show the paddle colour
PaddleCells(f, col) == {r \in 1..GRID_ROWS : f[r][col + 1] = CONTRIB_COLORS[2 + 1]}

\* the rows (1-based) of column col of frame f that show the ball colour
BallCells(f, col) == {r \in 1..GRID_ROWS : f[r][col + 1] = CONTRIB_COLORS[3 + 1]}

\* column col of frame f shows a whole paddle, or a paddle with the ball
\* drawn over one of its cells
ShowsPaddle(f, col) ==
    \/ Cardinality(PaddleCells(f, col)) = PADDLE_HEIGHT
    \/ /\ Cardinality(PaddleCells(f, col)) = PADDLE_HEIGHT - 1
       /\ Cardinality(BallCells(f, col)) = 1

\* what get_frame draws in paddle column col for a paddle whose top row is y
PaddleDrawn(f, col, y) ==
    PaddleCells(f, col) =
        {r \in 1..GRID_ROWS :
            /\ r - 1 \in y..(y + PADDLE_HEIGHT - 1)
            /\ ~(ball_x = col /\ ball_y = r - 1)}

(* C22: after any sequence of updates, deliberate-miss moves and score     *)
(* resets included, both paddles' top rows are within                      *)
(* 0 .. GRID_ROWS - PADDLE_HEIGHT, and every captured frame shows exactly  *)
(* PADDLE_HEIGHT paddle cells in each paddle column, except that the ball  *)
(* may be drawn over one of them.                                          *)
C22_PaddleBounds ==
    gen = "pong" =>
        /\ 0 <= left_paddle_y
        /\ left_paddle_y <= GRID_ROWS - PADDLE_HEIGHT
        /\ 0 <= right_paddle_y
        /\ right_paddle_y <= GRID_ROWS - PADDLE_HEIGHT
        /\ PaddleDrawn(get_frame(Pong), LEFT_PADDLE_COL, left_paddle_y)
        /\ PaddleDrawn(get_frame(Pong), RIGHT_PADDLE_COL, right_paddle_y)
        /\ ShowsPaddle(get_frame(Pong), LEFT_PADDLE_COL)
        /\ ShowsPaddle(get_frame(Pong), RIGHT_PADDLE_COL)
        /\ pong_frame # <<>> =>
              /\ ShowsPaddle(pong_frame, LEFT_PADDLE_COL)
              /\ ShowsPaddle(pong_frame, RIGHT_PADDLE_COL)

\* after a score reset, a right paddle on a deliberate miss downward stands
\* at the lowest row the clamp allows while the ball still approaches
C22_Witness ==
    /\ gen = "pong"
    /\ left_score + right_score > 0
    /\ will_miss_right
    /\ miss_direction_right = 1
    /\ ball_vx > 0
    /\ ball_x > (GRID_COLS * 3) \div 5 + PADDLE_HEIGHT
    /\ right_paddle_y = GRID_ROWS - PADDLE_HEIGHT
    /\ ~hits_paddle(right_paddle_y, ball_y)

\* the row a tracking paddle heads for
Target == ball_y - PADDLE_HEIGHT \div 2

\* the ball is on the left / right paddle's half
OnLeftHalf == ball_x < GRID_COLS \div 2
OnRightHalf == ball_x >= GRID_COLS \div 2

\* the deliberate-miss branch is taken for the left / right paddle
LeftMissBranch ==
    will_miss_left /\ ball_vx < 0 /\ ball_x < (GRID_COLS * 2) \div 5
RightMissBranch ==
    will_miss_right /\ ball_vx > 0 /\ ball_x > (GRID_COLS * 3) \div 5

\* a paddle at y is at ynew after one tracking step: one cell toward the
\* target as far as the clamp allows, and no move at the target
TracksFrom(y, ynew) ==
    /\ y = Target => ynew = y
    /\ y < Target => ynew = clamp_paddle(y + 1)
    /\ y > Target => ynew = clamp_paddle(y - 1)

\* one cell at most, only on the paddle's half, toward the target
PaddleSteps ==
    /\ left_paddle_y' - left_paddle_y \in {-1, 0, 1}
    /\ right_paddle_y' - right_paddle_y \in {-1, 0, 1}
    /\ left_paddle_y' # left_paddle_y => OnLeftHalf
    /\ right_paddle_y' # right_paddle_y => OnRightHalf
    /\ (OnLeftHalf /\ ~LeftMissBranch) => TracksFrom(left_paddle_y, left_paddle_y')
    /\ (OnRightHalf /\ ~RightMissBranch) =>
          TracksFrom(right_paddle_y, right_paddle_y')

(* C23 as stated: in every update each paddle's top row changes by at most *)
(* one cell, a paddle moves only when the ball's column before the update  *)
(* is on its half, and a tracking paddle moves toward                      *)
(* ball_y - PADDLE_HEIGHT // 2 and stays once it is there.                 *)
C23_Original == [][gen = "pong" => PaddleSteps]_vars

(* C23, amended: the above holds in every update that does not score; an   *)
(* update that scores puts both paddles at the centre row, whatever their  *)
(* rows and the ball's half were.                                          *)
C23_TrackingStep ==
    [][gen = "pong" =>
          /\ ~Scored => PaddleSteps
          /\ Scored =>
                /\ left_paddle_y' = (GRID_ROWS - PADDLE_HEIGHT) \div 2
                /\ right_paddle_y' = (GRID_ROWS - PADDLE_HEIGHT) \div 2]_vars

\* a tracking left paddle has reached its target away from the centre row,
\* while the right paddle waits off centre on the other half
C23_Witness ==
    /\ gen = "pong"
    /\ OnLeftHalf
    /\ ~LeftMissBranch
    /\ left_paddle_y = Target
    /\ left_paddle_y # (GRID_ROWS - PADDLE_HEIGHT) \div 2
    /\ right_paddle_y # (GRID_ROWS - PADDLE_HEIGHT) \div 2
    /\ left_score + right_score > 0

\* the ball moves toward a side and its next column is within one column of
\* that side's paddle column, or beyond it
LeftZone == ball_vx < 0 /\ ball_x + ball_vx <= LEFT_PADDLE_COL + 1
RightZone == ball_vx > 0 /\ ball_x + ball_vx >= RIGHT_PADDLE_COL - 1

\* row is one of the rows occupied by a paddle whose top row is y
OnPaddle(y, row) == row \in y..(y + PADDLE_HEIGHT - 1)

\* the ball leaves the update reflected by the left / right paddle
ReflectedLeft ==
    ball_vx' = -ball_vx /\ ball_x' = LEFT_PADDLE_COL + 2 /\ ball_y' = NextRow
ReflectedRight ==
    ball_vx' = -ball_vx /\ ball_x' = RIGHT_PADDLE_COL - 2 /\ ball_y' = NextRow

(* C24: in an update where the ball moves toward a side and its next       *)
(* column is within one column of that side's paddle column or beyond it,  *)
(* the ball is reflected if and only if its next row, after the wall       *)
(* check, is one of the rows of that paddle; a reflected ball is put at    *)
(* LEFT_PADDLE_COL + 2 or RIGHT_PADDLE_COL - 2 with its horizontal         *)
(* velocity negated and no score changes; outside these updates the ball   *)
(* keeps its horizontal velocity, so a ball moving away from a paddle is   *)
(* never reflected by it.                                                  *)
C24_PaddleCollision ==
    [][gen = "pong" =>
          /\ LeftZone =>
                /\ OnPaddle(LeftPaddleMoved, NextRow) <=> ReflectedLeft
                /\ ReflectedLeft => ~Scored
          /\ RightZone =>
                /\ OnPaddle(RightPaddleMoved, NextRow) <=> ReflectedRight
                /\ ReflectedRight => ~Scored
          /\ ~LeftZone /\ ~RightZone =>
                /\ ~Scored
                /\ ball_vx' = ball_vx
                /\ ball_x' = ball_x + ball_vx
          /\ ball_vx > 0 => ~ReflectedLeft
          /\ ball_vx < 0 => ~ReflectedRight]_vars

\* the ball has just been reflected by the left paddle at the paddle's
\* lowest row, in a game in which a paddle has missed before
C24_Witness ==
    /\ gen = "pong"
    /\ ball_x = LEFT_PADDLE_COL + 2
    /\ ball_vx = 1
    /\ ball_y = left_paddle_y + PADDLE_HEIGHT - 1
    /\ left_score + right_score > 0

----------------------------------------------------------------------------
(* simulate_pong_game's loop calls update once per iteration, one          *)
(* iteration after the other: the next update is always taken              *)
LivePong == PongInit /\ [][PongNext]_vars /\ WF_vars(PongNext)

(* C25: in a rally in which the miss flag of the side the ball approaches  *)
(* is set, once the ball is inside that side's trigger zone the paddle     *)
(* moves in its pre-chosen direction instead of tracking, and the rally    *)
(* eventually ends with a score. (The claim adds that the score goes to    *)
(* the opposing side; the rally ending at all is the part stated here.)    *)
C25_MissScores ==
    \A n \in 0..(MaxScore - 1) :
        (/\ gen = "pong"
         /\ LeftMissBranch \/ RightMissBranch
         /\ left_score + right_score = n) ~> (left_score + right_score = n + 1)

----------------------------------------------------------------------------
(* C30: in a rally in which neither will_miss_left nor will_miss_right is  *)
(* set, begun by the constructor or by any reset_ball with any velocity    *)
(* signs, no update changes either score.                                  *)
C30_TrackingNeverMisses ==
    [][(gen = "pong" /\ ~will_miss_left /\ ~will_miss_right) =>
          (left_score' = left_score /\ right_score' = right_score)]_vars

\* in a rally without miss flags that began with a reset_ball, the right
\* paddle has just returned a ball that arrived along a wall
C30_Witness ==
    /\ gen = "pong"
    /\ ~will_miss_left
    /\ ~will_miss_right
    /\ left_score + right_score > 0
    /\ ball_vx = -1
    /\ ball_x = RIGHT_PADDLE_COL - 2
    /\ ball_y \in {0, GRID_ROWS - 1}

----------------------------------------------------------------------------
\* the cells (1-based row, column) set in bitmap grid
TargetCells(grid) ==
    {rc \in (1..WELCOME_GRID_ROWS) \X (1..WELCOME_GRID_COLS) :
        grid[rc[1]][rc[2]] # 0}

\* cell a comes before cell b in (column, row) order
ComesBefore(a, b) == a[2] < b[2] \/ (a[2] = b[2] /\ a[1] < b[1])

\* shown is a prefix of the cells of target in (column, row) order
IsPrefixByColumn(shown, target) ==
    /\ shown \subseteq target
    /\ \A b \in shown : \A a \in target : ComesBefore(a, b) => a \in shown

(* C26: every reveal frame colours a prefix of the bitmap's filled cells   *)
(* taken in (column, row) order, each reveal frame colours every cell the  *)
(* reveal frame before it coloured, and no frame of the reveal or the      *)
(* pulse phase colours a cell that is not set in the bitmap.               *)
C26_RevealOrder ==
    [][gen = "welcome" =>
          /\ ColouredCells(wframe') \subseteq TargetCells(base_grid)
          /\ wpc' = "reveal" =>
                /\ IsPrefixByColumn(ColouredCells(wframe'), TargetCells(base_grid))
                /\ ColouredCells(wframe) \subseteq ColouredCells(wframe')
                /\ Cardinality(ColouredCells(wframe))
                      <= Cardinality(ColouredCells(wframe'))]_vars

\* a reveal frame of the WELCOME bitmap that shows the top of a column whose
\* lower cells are still to come, after the columns to its left
C26_Witness ==
    /\ gen = "welcome"
    /\ base_grid = build_welcome_grid
    /\ wpc = "reveal"
    /\ frame_idx >= 2
    /\ \E rc \in ColouredCells(wframe) :
          \E below \in TargetCells(base_grid) \ ColouredCells(wframe) :
              below[2] = rc[2] /\ below[1] > rc[1]

----------------------------------------------------------------------------
\* the levels a column runs through as the wave passes
PulseCycle == <<3, 2, 1, 2>>

\* the level the cycle gives column col (0-based) in pulse frame idx
CycleLevel(col, idx) == PulseCycle[((col + idx \div 5) % 4) + 1]

\* the pulse frame of index idx has been appended last
PulseFrameShown(idx) ==
    /\ gen = "welcome"
    /\ wpc \in {"pulse", "done"}
    /\ frame_idx = idx + 1

\* frame f colours exactly the cells of the bitmap, each at the level the
\* cycle gives its column in pulse frame idx
IsPulseFrame(f, idx) ==
    \A r \in 1..WELCOME_GRID_ROWS : \A c \in 1..WELCOME_GRID_COLS :
        /\ f[r][c] # EMPTY_COLOR <=> base_grid[r][c] # 0
        /\ base_grid[r][c] # 0 =>
              /\ f[r][c] = CONTRIB_COLORS[CycleLevel(c - 1, idx) + 1]
              /\ CycleLevel(c - 1, idx) \in {1, 2, 3}

(* C27: in every pulse frame a cell is coloured exactly when it is set in  *)
(* the bitmap; its colour is the level of CONTRIB_COLORS that the cycle    *)
(* 3, 2, 1, 2 gives for floor(col + frame_index / 5) mod 4, which depends  *)
(* on the column and the frame index only and is one of 1, 2, 3; the       *)
(* frames repeat with a period of 20 pulse frames.                         *)
C27_Pulse ==
    \A idx \in 0..(PULSE_FRAMES - 1) :
        PulseFrameShown(idx) =>
            /\ IsPulseFrame(wframe, idx)
            /\ IsPulseFrame(wframe, (idx + 20) % 40)
            /\ (TargetCells(base_grid) # {} /\ idx >= 5) =>
                  ~IsPulseFrame(wframe, idx - 5)

\* a pulse frame of the WELCOME bitmap in the second period, showing all
\* three levels
C27_Witness ==
    /\ PulseFrameShown(25)
    /\ base_grid = build_welcome_grid
    /\ \A level \in {1, 2, 3} :
          \E rc \in TargetCells(base_grid) :
              wframe[rc[1]][rc[2]] = CONTRIB_COLORS[level + 1]

----------------------------------------------------------------------------
\* the number of occupied cells of board b
CellCount(b) == Cardinality(OccupiedCells(b))

\* the step that locks the piece, clears the full rows and captures the
\* settle frame
IsLock == pc = "fall" /\ pc' = "spawn"

(* C28: from the spawn frame of a piece to its last frame before the lock  *)
(* the board's occupied cells stay the same, and the settle frame's board  *)
(* has that many cells plus 4, less GAME_COLS for every row the lock       *)
(* cleared; a lock clears at most 4 rows; whenever no piece is active the  *)
(* board has no full row.                                                  *)
C28_CellConservation ==
    [][gen = "tetris" =>
          /\ IsLock =>
                /\ frame'.board = board'
                /\ frame'.piece = NoPiece
                /\ CellCount(board')
                      = CellCount(frame.board) + 4 - GAME_COLS * last_cleared'
                /\ last_cleared' = Cardinality(FullRows(locked_board'))
                /\ last_cleared' <= 4
          /\ (pc \in {"tick", "fall"} /\ ~IsLock) =>
                /\ OccupiedCells(board') = OccupiedCells(board)
                /\ pc' = "fall" => OccupiedCells(frame'.board) = OccupiedCells(frame.board)
          /\ pc = "spawn" => FullRows(board) = {}
          /\ pc' = "spawn" => FullRows(board') = {}]_vars

\* a lock has just cleared two rows and left cells on the board
C28_Witness ==
    /\ JustLocked
    /\ last_cleared = 2
    /\ CellCount(locked_board) = CellCount(board) + 2 * GAME_COLS
    /\ CellCount(board) > 0

----------------------------------------------------------------------------
\* the piece would fit d_row rows down and d_col columns to the right
FitsAt(d_row, d_col) ==
    PieceCellsFree(board, game_rows, current_piece,
                   current_row + d_row, current_col + d_col)

\* row, column, rotation and cells of the piece stay
PieceStays ==
    /\ current_row' = current_row
    /\ current_col' = current_col
    /\ current_rotation' = current_rotation
    /\ current_piece' = current_piece

\* board, score and lines cleared stay
BoardStays ==
    /\ board' = board
    /\ score' = score
    /\ lines_cleared' = lines_cleared

\* a lateral try_move or a try_rotate applied to the current fields leaves
\* the board and the counters alone, and a rejected try_move the piece too
MovesKeepBoard ==
    /\ \A a \in {"left", "right", "rotate", "none"} :
          LET g == do_action(Game, game_rows, a)
          IN  /\ g.board = board
              /\ g.score = score
              /\ g.lines_cleared = lines_cleared
    /\ \A d_col \in {-1, 1} :
          LET g == do_action(Game, game_rows, IF d_col = -1 THEN "left" ELSE "right")
          IN  IF FitsAt(0, d_col)
              THEN g.row = current_row /\ g.col = current_col + d_col
              ELSE /\ g.row = current_row
                   /\ g.col = current_col
                   /\ g.rotation = current_rotation
                   /\ g.piece = current_piece

(* C29: while a piece is falling the board is not modified: a try_move or  *)
(* a try_rotate, taken or rejected, leaves every board cell, the score and *)
(* the lines cleared as they were, and a rejected try_move leaves row,     *)
(* column and rotation as they were; the board changes only in the lock    *)
(* (lock_piece, clear_lines) and in the reset after a failed spawn, so all *)
(* frames of a piece from its spawn frame to its last frame before the     *)
(* lock carry the same board.                                              *)
C29_BoardFrozen ==
    [][gen = "tetris" =>
          /\ pc = "tick" =>
                /\ MovesKeepBoard
                /\ BoardStays
                /\ frame'.board = frame.board
                /\ PieceStays \/ PieceCellsFree(board', game_rows, current_piece',
                                                current_row', current_col')
          /\ (pc = "fall" /\ ~IsLock) =>
                /\ BoardStays
                /\ FitsAt(1, 0)
                /\ current_row' = current_row + 1
                /\ current_col' = current_col
                /\ current_rotation' = current_rotation
          /\ IsLock =>
                /\ ~FitsAt(1, 0)
                /\ current_row' = current_row
                /\ current_col' = current_col
                /\ current_rotation' = current_rotation
          /\ board' # board => (IsLock \/ (pc = "spawn" /\ spawn_failed'))]_vars

\* after an action and at least one row of fall, a piece stands against the
\* left wall over a board that holds cells: a move to the left is rejected
C29_Witness ==
    /\ gen = "tetris"
    /\ pc = "tick"
    /\ acted
    /\ falls >= 1
    /\ OccupiedCells(board) # {}
    /\ frame.board = board
    /\ ~FitsAt(0, -1)
    /\ FitsAt(0, 1)

====
